---- MODULE Spec2Model ----
(***************************************************************************)
(* A model of opc-xml-da-cli:                                              *)
(*   - internal/cli/browse.go: BrowseOpcTree, the recursive, paginated,    *)
(*     depth-bounded walk of the server's namespace;                       *)
(*   - internal/cli/net_debug.go: loggingRoundTripper, the instrumented    *)
(*     HTTP transport.                                                     *)
(* Go strings that are compared, concatenated or canonicalised are         *)
(* sequences of code points (<<97>> is "a"); strings that are only         *)
(* compared for equality (continuation tokens, header values, error        *)
(* values, log messages) are TLA+ strings.                                 *)
(***************************************************************************)
EXTENDS Integers, Sequences, FiniteSets, TLC

VARIABLES
    \* ---- browse.go ----
    pc,             \* "init" | "running" | "done" | "panic": position of the BrowseOpcTree call
    args,           \* the arguments of the call: itemPath, itemName, maxDepth
    stack,          \* the active browseOpcChildren calls, innermost last
    visited,        \* the visited map: a set of keys (makeBrowseKey)
    out,            \* the lines written to out, in order
    result,         \* the value BrowseOpcTree returned
    ctxDone,        \* whether ctx has been cancelled
    rpcCalls,       \* history: the number of svc.BrowseContext calls made
    rpcAfterCancel, \* history: svc.BrowseContext was called with ctx cancelled
    expandLog,      \* history: the node of every fetchBrowseElements call, in order
    emitLog,        \* history: every element line written, in order
    failure,        \* history: the listing whose page fetch failed
    srvLeft         \* how many more elements the server will serve

browseVars == <<pc, args, stack, visited, out, result, ctxDone, rpcCalls, rpcAfterCancel,
                expandLog, emitLog, failure, srvLeft>>

VARIABLES
    \* ---- net_debug.go ----
    rt,         \* the loggingRoundTripper: maxBodyBytes and seq
    calls,      \* the RoundTrip calls, one per caller: position, locals, result
    events,     \* the records handed to logger.Info, in order
    now         \* the clock time.Now reads

rtVars == <<rt, calls, events, now>>

VARIABLES
    \* ---- xsd_datetime.go ----
    codec       \* the call of the timestamp codec: its input and what it returned

dtVars == <<codec>>

vars == <<browseVars, rtVars, dtVars>>

(***************************************************************************)
(* Bounds of the model.                                                    *)
(***************************************************************************)
MaxDepthArg == 2    \* maxDepth is drawn from -1..MaxDepthArg
MaxPages == 2       \* a listing ends after at most MaxPages pages
MaxElems == 2       \* elements the server serves in one traversal
NumCallers == 2     \* goroutines that call RoundTrip on one loggingRoundTripper
MaxTime == 2        \* the clock runs from 0 to MaxTime
MaxBudget == 2      \* maxBodyBytes is drawn from -1..MaxBudget
MaxBody == 3        \* bodies are of 0..MaxBody bytes
MaxCaseFlips == 1   \* letters of a header name spelled in the other case
MaxCloses == 2      \* Close calls on one response body
MaxFracDigits == 2  \* digits of a timestamp's fraction of a second
MaxErrors == 2      \* entries of a response's error list
MaxHooks == 2       \* trace hooks base calls for one exchange

(***************************************************************************)
(* Strings as sequences of code points.                                    *)
(***************************************************************************)
Min(a, b) == IF a <= b THEN a ELSE b

\* Go's < on strings: lexicographic on the bytes.
StrLess(s, t) ==
    \E i \in 1..(Min(Len(s), Len(t)) + 1) :
        /\ \A j \in 1..(i - 1) : s[j] = t[j]
        /\ \/ i > Len(s) /\ i <= Len(t)
           \/ i <= Len(s) /\ i <= Len(t) /\ s[i] < t[i]

EmptyStr == <<>>
RootPlaceholder == <<60, 114, 111, 111, 116, 62>>                  \* "<root>"
UnnamedPlaceholder == <<60, 117, 110, 110, 97, 109, 101, 100, 62>> \* "<unnamed>"
NilPlaceholder == <<60, 110, 105, 108, 62>>                        \* "<nil>"
Slash == <<47>>                                                    \* "/"
Newline == <<10>>                                                  \* "\n"
TwoSpaces == <<32, 32>>                                            \* "  "
KeySeparator == <<0>>                                              \* "\x00"

(***************************************************************************)
(* service.BrowseElement, and the entries the modelled server serves.      *)
(***************************************************************************)
BrowseElement(name, itemPath, itemName, hasChildren) ==
    [isNil |-> FALSE, Name |-> name, ItemPath |-> itemPath,
     ItemName |-> itemName, HasChildren |-> hasChildren]

\* A nil *service.BrowseElement: it has no fields to read.
NilElement ==
    [isNil |-> TRUE, Name |-> EmptyStr, ItemPath |-> EmptyStr,
     ItemName |-> EmptyStr, HasChildren |-> FALSE]

\* Every case of the label chain, with two branches that share the label "b"
\* and differ in identity, and a branch whose identity is the empty root's:
\*   "b" by Name, identity ("", "m");   "b" by ItemPath, identity ("b", "");
\*   "a" by ItemName, a leaf;           "<unnamed>", identity ("", "").
Elements ==
    { BrowseElement(<<98>>, EmptyStr, <<109>>, TRUE),
      BrowseElement(EmptyStr, <<98>>, EmptyStr, TRUE),
      BrowseElement(EmptyStr, EmptyStr, <<97>>, FALSE),
      BrowseElement(EmptyStr, EmptyStr, EmptyStr, TRUE) }

ElementsOrNil == Elements \cup {NilElement}

RootArgs ==
    { [itemPath |-> EmptyStr, itemName |-> EmptyStr],
      [itemPath |-> EmptyStr, itemName |-> <<109>>] }

\* Every case of the root's label: no field, a name, a path, both.
RootLabelArgs ==
    RootArgs \cup { [itemPath |-> <<98>>, itemName |-> EmptyStr],
                    [itemPath |-> <<112>>, itemName |-> <<110>>] }

\* A server whose nodes are leaves.
Leaves == { BrowseElement(EmptyStr, EmptyStr, <<97>>, FALSE),
            BrowseElement(<<99>>, <<98>>, EmptyStr, FALSE) }

\* Three leaves "a", "b" and "c", and a branch "b".
LeafA == BrowseElement(<<97>>, EmptyStr, EmptyStr, FALSE)
LeafB == BrowseElement(<<98>>, EmptyStr, EmptyStr, FALSE)
LeafC == BrowseElement(<<99>>, EmptyStr, EmptyStr, FALSE)
BranchB == BrowseElement(<<98>>, EmptyStr, <<109>>, TRUE)
LeavesAndBranch == {LeafA, LeafB, LeafC, BranchB}
UnnamedRoot == [itemPath |-> EmptyStr, itemName |-> EmptyStr]
ThreeElements == 3

Tokens == {"", "t1", "t2"}

\* Sequences over S of length 0..n.
SeqsUpTo(S, n) == UNION { [1..k -> S] : k \in 0..n }

(***************************************************************************)
(* browse.go: the pure helpers.                                            *)
(***************************************************************************)
browseElementName(el) ==
    IF el.isNil THEN NilPlaceholder
    ELSE IF el.Name # EmptyStr THEN el.Name
    ELSE IF el.ItemName # EmptyStr THEN el.ItemName
    ELSE IF el.ItemPath # EmptyStr THEN el.ItemPath
    ELSE UnnamedPlaceholder

makeBrowseKey(itemPath, itemName) == itemPath \o KeySeparator \o itemName

\* A slip in the order: the path goes before the name.
rootLabelPathFirst(itemPath, itemName) ==
    IF itemPath # EmptyStr THEN itemPath
    ELSE IF itemName # EmptyStr THEN itemName
    ELSE RootPlaceholder

rootLabel(itemPath, itemName) ==
    IF itemName # EmptyStr THEN itemName
    ELSE IF itemPath # EmptyStr THEN itemPath
    ELSE RootPlaceholder

\* The less function handed to sort.Slice.
ElementLess(a, b) == StrLess(browseElementName(a), browseElementName(b))

IndexPermutations(n) == { f \in [1..n -> 1..n] : \A i, j \in 1..n : i # j => f[i] # f[j] }

IsSortedBy(s) == \A i, j \in 1..Len(s) : i < j => ~ElementLess(s[j], s[i])

\* sort.Slice: "The sort is not guaranteed to be stable": every ordering of
\* the slice that is sorted by the less function is a possible outcome.
SortSlice(s) ==
    { t \in { [i \in 1..Len(s) |-> s[f[i]]] : f \in IndexPermutations(Len(s)) } : IsSortedBy(t) }

\* A slip in the marker: a branch that was visited before is written as a leaf.
ElementLineClosedIfVisited(indent, el) ==
    indent \o browseElementName(el)
           \o (IF el.HasChildren /\ makeBrowseKey(el.ItemPath, el.ItemName) \notin visited
               THEN Slash ELSE EmptyStr)
           \o Newline

\* The line Fprintf(out, "%s%s%s\n", indent, name, suffix) writes.
ElementLine(indent, el) ==
    indent \o browseElementName(el) \o (IF el.HasChildren THEN Slash ELSE EmptyStr) \o Newline

RECURSIVE Flatten(_)
Flatten(pages) ==
    IF pages = <<>> THEN <<>> ELSE Head(pages) \o Flatten(Tail(pages))

(***************************************************************************)
(* A browseOpcChildren call: its arguments and locals. The history fields  *)
(* pages and returned say how the listing was served; they are kept until  *)
(* the call's loop takes its first step.                                   *)
(***************************************************************************)
\* A slip in the recursion: the callee is handed the caller's indent and
\* depth.
NewFrameAtCallerDepth(itemPath, itemName, indent, depth) ==
    [itemPath |-> itemPath, itemName |-> itemName,
     indent |-> IF depth > 1 THEN SubSeq(indent, 1, Len(indent) - Len(TwoSpaces)) ELSE indent,
     depth |-> IF depth > 1 THEN depth - 1 ELSE depth,
     phase |-> "fetch", all |-> <<>>, continuation |-> "", elements |-> <<>>, idx |-> 1,
     pages |-> <<>>, returned |-> <<>>]

NewFrame(itemPath, itemName, indent, depth) ==
    [itemPath |-> itemPath, itemName |-> itemName, indent |-> indent, depth |-> depth,
     phase |-> "fetch",            \* "fetch": in fetchBrowseElements; "loop": in the for loop
     all |-> <<>>,                 \* fetchBrowseElements' accumulator
     continuation |-> "",          \* fetchBrowseElements' continuation
     elements |-> <<>>,            \* the sorted elements
     idx |-> 1,                    \* the loop's position in elements
     pages |-> <<>>,               \* history: the exchanges of this listing, in order
     returned |-> <<>>]            \* history: what fetchBrowseElements returned

\* A *service.OPCError: ID is a pointer to a string, Text a string.
OPCError(hasID, id, text) == [isNil |-> FALSE, hasID |-> hasID, ID |-> id, Text |-> text]
NilOPCError == [isNil |-> TRUE, hasID |-> FALSE, ID |-> "", Text |-> ""]

\* strings.Join(parts, sep)
RECURSIVE Join(_, _)
Join(parts, sep) ==
    IF parts = <<>> THEN ""
    ELSE IF Len(parts) = 1 THEN parts[1]
    ELSE parts[1] \o sep \o Join(Tail(parts), sep)

\* The parts formatOPCErrors' loop collects.
RECURSIVE ErrorParts(_)
ErrorParts(opcErrors) ==
    IF opcErrors = <<>> THEN <<>>
    ELSE LET err == Head(opcErrors)
             rest == ErrorParts(Tail(opcErrors))
         IN  IF err.isNil THEN rest
             ELSE IF err.hasID /\ err.ID # "" THEN <<err.ID \o ": " \o err.Text>> \o rest
             ELSE IF err.Text # "" THEN <<err.Text>> \o rest
             ELSE rest

\* A slip in the rendering: the id is left out.
formatOPCErrorsTextOnly(opcErrors) ==
    LET texts == SelectSeq(opcErrors, LAMBDA err : ~err.isNil /\ err.Text # "")
    IN  IF texts = <<>> THEN "unknown error"
        ELSE Join([i \in 1..Len(texts) |-> texts[i].Text], "; ")

formatOPCErrors(opcErrors) ==
    IF Len(opcErrors) = 0 THEN "unknown error"
    ELSE IF Len(ErrorParts(opcErrors)) = 0 THEN "unknown error"
    ELSE Join(ErrorParts(opcErrors), "; ")

\* What BrowseOpcTree returns: nil, or an error. fmt.Errorf("browse: %w", err)
\* wraps the transport's error; fmt.Errorf("browse: %s", formatOPCErrors(..))
\* carries the server's error list.
NoResult == [kind |-> "none", wraps |-> "", opc |-> ""]
NilResult == [kind |-> "nil", wraps |-> "", opc |-> ""]
ErrorResult(text) == [kind |-> text, wraps |-> "", opc |-> ""]
BrowseWrapped(err) == [kind |-> "browse: %w", wraps |-> err, opc |-> ""]
BrowseEmptyResponse == [kind |-> "browse: empty response", wraps |-> "", opc |-> ""]
BrowseOPCErrors(errs) == [kind |-> "browse: %s", wraps |-> "", opc |-> formatOPCErrors(errs)]

\* Why a page fetch fails: svc.BrowseContext returns an error, or no
\* response, or a response that lists errors.
TransportFailure(err) == [kind |-> "transport", err |-> err, errs |-> <<>>]
EmptyResponse == [kind |-> "empty", err |-> "", errs |-> <<>>]
ServerErrors(errs) == [kind |-> "opc", err |-> "", errs |-> errs]

NoFailure ==
    [failed |-> FALSE, itemPath |-> EmptyStr, itemName |-> EmptyStr, earlier |-> <<>>,
     cause |-> EmptyResponse]

Top == stack[Len(stack)]
SetTop(f) == [stack EXCEPT ![Len(stack)] = f]

BrowseInit ==
    /\ pc = "init"
    /\ args = [itemPath |-> EmptyStr, itemName |-> EmptyStr, maxDepth |-> 0]
    /\ stack = <<>>
    /\ visited = {}
    /\ out = <<>>
    /\ result = NoResult
    /\ ctxDone = FALSE
    /\ rpcCalls = 0
    /\ rpcAfterCancel = FALSE
    /\ expandLog = <<>>
    /\ emitLog = <<>>
    /\ failure = NoFailure
    /\ srvLeft = MaxElems

\* visited as BrowseOpcTree makes it: the root's key.
InitialVisited(itemPath, itemName) == {makeBrowseKey(itemPath, itemName)}

\* A return before any browseOpcChildren call.
ReturnEarly(r) ==
    /\ pc' = "done"
    /\ result' = r
    /\ UNCHANGED <<visited, stack, expandLog>>

\* BrowseOpcTree up to its call of browseOpcChildren, called with a root of
\* roots and a maxDepth of depths, on a server that has supply elements to
\* serve.
BrowseOpcTreeOn(roots, depths, supply) ==
    /\ pc = "init"
    /\ srvLeft' = supply
    /\ \E root \in roots, maxDepth \in depths, outNil \in BOOLEAN, writeOk \in BOOLEAN :
        /\ args' = [itemPath |-> root.itemPath, itemName |-> root.itemName, maxDepth |-> maxDepth]
        /\ IF outNil THEN
              /\ ReturnEarly(ErrorResult("output is nil"))
              /\ UNCHANGED out
           ELSE IF ~writeOk THEN
              /\ ReturnEarly(ErrorResult("write error"))
              /\ UNCHANGED out
           ELSE
              /\ out' = <<rootLabel(root.itemPath, root.itemName) \o Newline>>
              /\ IF maxDepth <= 0 THEN
                    ReturnEarly(NilResult)
                 ELSE
                    /\ pc' = "running"
                    /\ visited' = InitialVisited(root.itemPath, root.itemName)
                    /\ stack' = <<NewFrame(root.itemPath, root.itemName, TwoSpaces, 1)>>
                    /\ expandLog' = <<[itemPath |-> root.itemPath, itemName |-> root.itemName,
                                       depth |-> 1]>>
                    /\ UNCHANGED result
    /\ UNCHANGED <<ctxDone, rpcCalls, rpcAfterCancel, emitLog, failure>>
    /\ UNCHANGED <<rtVars, dtVars>>

BrowseOpcTreeOf(roots) == BrowseOpcTreeOn(roots, -1..MaxDepthArg, MaxElems)

BrowseOpcTree == BrowseOpcTreeOf(RootArgs)

\* The errors svc.BrowseContext can return: a transport failure at any time,
\* ctx's error once ctx is cancelled.
TransportErrors == {"transport failure"} \cup (IF ctxDone THEN {"context canceled"} ELSE {})

\* resp.Errors of a response that reports errors.
OPCErrorLists ==
    { <<OPCError(TRUE, "E_FAIL", "failed")>>,
      <<OPCError(FALSE, "", "")>> }

\* A slip in the accumulation: the new page is put in front.
PrependPage(all, elems) == elems \o all

\* all = append(all, resp.Elements...)
AppendPage(all, elems) == all \o elems

\* A slip in the loop's exit test: both conditions are required.
LoopEndsOnBoth(more, token) == ~more /\ token = ""

\* if !resp.MoreElements || resp.ContinuationPoint == "" { break }
LoopEnds(more, token) == ~more \/ token = ""

\* A slip in the paging: the request's token is sent again.
ContinuationKept(continuation, token) == continuation

\* continuation = resp.ContinuationPoint
NextContinuation(continuation, token) == token

\* The server's last page of a listing: it announces no more elements, or
\* hands out no continuation point.
LastPage(more, token) == ~more \/ token = ""

\* resp.Elements of every exchange of a listing, in order.
PageElements(pages) == [i \in 1..Len(pages) |-> pages[i].elems]

\* The for loop is left: fetchBrowseElements returns all, browseOpcChildren
\* sorts it in place and enters its loop.
FetchReturns(f, all, pages) ==
    \E sorted \in SortSlice(all) :
        stack' = SetTop([f EXCEPT !.all = all, !.pages = pages, !.phase = "loop",
                                  !.elements = sorted, !.idx = 1, !.returned = all])

\* A slip in the error path: the failing call returns and its caller goes on
\* with the next sibling.
AbortInnermost(err) ==
    /\ result' = err
    /\ stack' = SubSeq(stack, 1, Len(stack) - 1)
    /\ pc' = IF Len(stack) = 1 THEN "done" ELSE pc

\* The error err leaves the browseOpcChildren call it arose in, and every
\* caller returns it at once: if err != nil { return err }.
Abort(err) ==
    /\ pc' = "done"
    /\ result' = err
    /\ stack' = <<>>

\* The entries of an error list: with an id and a text, with an id alone,
\* with an empty id and a text, with a text alone, with neither, and nil.
OPCErrorEntries ==
    { OPCError(TRUE, "E_FAIL", "failed"), OPCError(TRUE, "E_BUSY", ""),
      OPCError(TRUE, "", "no id"), OPCError(FALSE, "", "bad item"),
      OPCError(FALSE, "", ""), NilOPCError }

\* Responses whose error list has 1..MaxErrors entries.
ErrorResponses ==
    { ServerErrors(errs) : errs \in SeqsUpTo(OPCErrorEntries, MaxErrors) \ {<<>>} }

\* The ways a page fetch can fail.
FetchFailures ==
    { TransportFailure(err) : err \in TransportErrors }
    \cup {EmptyResponse}
    \cup { ServerErrors(errs) : errs \in OPCErrorLists }

\* The error fetchBrowseElements returns when a page fetch of the listing of
\* (itemPath, itemName) fails: the node goes into the request, and the error
\* is made of the cause alone.
FetchError(itemPath, itemName, cause) ==
    CASE cause.kind = "transport" -> BrowseWrapped(cause.err)
      [] cause.kind = "empty" -> BrowseEmptyResponse
      [] cause.kind = "opc" -> BrowseOPCErrors(cause.errs)

\* A page fetch of the listing f fails.
FetchFails(f, cause) ==
    /\ Abort(FetchError(f.itemPath, f.itemName, cause))
    /\ failure' = [failed |-> TRUE, itemPath |-> f.itemPath, itemName |-> f.itemName,
                   earlier |-> f.all, cause |-> cause]
    /\ UNCHANGED srvLeft

\* The responses of a server that answers the next request with entries drawn
\* from universe; a listing has at most MaxPages pages.
UniverseResponses(universe) ==
    { r \in [elems : SeqsUpTo(universe, srvLeft), more : BOOLEAN, token : Tokens] :
        Len(Top.pages) + 1 = MaxPages => LastPage(r.more, r.token) }

\* A namespace: the root lists the branches "y" and "a", "a" lists "y", "y"
\* lists the branch "z", and "z" lists the leaf "w".
NodeA == BrowseElement(<<97>>, EmptyStr, <<97>>, TRUE)
NodeY == BrowseElement(<<121>>, EmptyStr, <<121>>, TRUE)
NodeZ == BrowseElement(<<122>>, EmptyStr, <<122>>, TRUE)
NodeW == BrowseElement(<<119>>, EmptyStr, <<119>>, FALSE)

Children(itemPath, itemName) ==
    IF itemPath # EmptyStr THEN <<>>
    ELSE IF itemName = EmptyStr THEN <<NodeY, NodeA>>
    ELSE IF itemName = NodeA.ItemName THEN <<NodeY>>
    ELSE IF itemName = NodeY.ItemName THEN <<NodeZ>>
    ELSE IF itemName = NodeZ.ItemName THEN <<NodeW>>
    ELSE <<>>

\* The roots a traversal of the namespace starts at, the values of maxDepth
\* it is given, and the number of entries in the namespace's listings.
NamespaceRoots ==
    { UnnamedRoot, [itemPath |-> EmptyStr, itemName |-> NodeA.ItemName],
      [itemPath |-> EmptyStr, itemName |-> NodeY.ItemName] }
NamespaceDepths == 1..3
NamespaceSize == 5

\* The responses of a server that answers the next request with the next
\* children of the node, in pages of any size, and ends the listing with the
\* last of them; a listing has at most MaxPages pages.
NamespaceResponses ==
    LET kids == Children(Top.itemPath, Top.itemName)
        served == Len(Top.all)
    IN  { r \in [elems : { SubSeq(kids, served + 1, served + n) : n \in 0..(Len(kids) - served) },
                 more : BOOLEAN, token : Tokens] :
            /\ LastPage(r.more, r.token) <=> served + Len(r.elems) = Len(kids)
            /\ Len(Top.pages) + 1 = MaxPages => LastPage(r.more, r.token) }

\* One iteration of fetchBrowseElements' loop: the request, svc.BrowseContext,
\* and the response, which is one of responses or a failure of failures.
FetchPageGiven(responses, failures) ==
    /\ pc = "running"
    /\ stack # <<>>
    /\ Top.phase = "fetch"
    /\ Len(Top.pages) < MaxPages
    /\ rpcCalls' = rpcCalls + 1
    /\ rpcAfterCancel' = (rpcAfterCancel \/ ctxDone)
    /\ \/ \E cause \in failures : FetchFails(Top, cause)
       \/ \E r \in responses :
            LET f == Top
                elems == r.elems
                more == r.more
                token == r.token
                all == AppendPage(f.all, elems)
                pages == Append(f.pages, [continuation |-> f.continuation, elems |-> elems,
                                          more |-> more, token |-> token])
            IN  /\ srvLeft' = srvLeft - Len(elems)
                /\ UNCHANGED <<pc, result, failure>>
                /\ IF LoopEnds(more, token)
                   THEN FetchReturns(f, all, pages)
                   ELSE stack' = SetTop([f EXCEPT !.all = all, !.pages = pages,
                                                  !.continuation =
                                                      NextContinuation(f.continuation, token)])
    /\ UNCHANGED <<args, visited, out, ctxDone, expandLog, emitLog>>
    /\ UNCHANGED <<rtVars, dtVars>>

\* The server answers with entries drawn from universe or with a failure of
\* failures.
FetchPageFrom(universe, failures) == FetchPageGiven(UniverseResponses(universe), failures)

FetchPage(universe) == FetchPageFrom(universe, FetchFailures)

\* The server lists the namespace.
FetchNamespace == FetchPageGiven(NamespaceResponses, FetchFailures)

\* A slip in the bound: an element at depth maxDepth is expanded too.
DescendsAtBound(el, depth) == el.HasChildren /\ depth <= args.maxDepth

\* if el.HasChildren && depth < maxDepth
Descends(el, depth) == el.HasChildren /\ depth < args.maxDepth

\* A slip in the cycle check: the visited map is never consulted.
IsVisitedNever(key) == FALSE

\* if _, ok := visited[key]; ok { continue }
IsVisited(key) == key \in visited

\* One iteration of browseOpcChildren's for loop, up to the recursive call.
LoopStep ==
    /\ pc = "running"
    /\ stack # <<>>
    /\ Top.phase = "loop"
    /\ Top.idx <= Len(Top.elements)
    /\ LET f == Top
           el == f.elements[f.idx]
           advanced == [f EXCEPT !.idx = f.idx + 1, !.pages = <<>>, !.returned = <<>>,
                                 !.all = <<>>]
           key == makeBrowseKey(el.ItemPath, el.ItemName)
       IN  IF el.isNil THEN
              \* el.HasChildren dereferences the nil pointer: a runtime panic.
              /\ pc' = "panic"
              /\ stack' = <<>>
              /\ UNCHANGED <<result, out, emitLog, visited, expandLog>>
           ELSE \E writeOk \in BOOLEAN :
              IF ~writeOk THEN
                 /\ Abort(ErrorResult("write error"))
                 /\ UNCHANGED <<out, emitLog, visited, expandLog>>
              ELSE
                 /\ out' = Append(out, ElementLine(f.indent, el))
                 /\ emitLog' = Append(emitLog, [depth |-> f.depth, el |-> el,
                                                itemPath |-> f.itemPath, itemName |-> f.itemName])
                 /\ UNCHANGED <<pc, result>>
                 /\ IF Descends(el, f.depth) /\ ~IsVisited(key)
                    THEN /\ visited' = visited \cup {key}
                         /\ stack' = Append(SetTop(advanced),
                                            NewFrame(el.ItemPath, el.ItemName,
                                                     f.indent \o TwoSpaces, f.depth + 1))
                         /\ expandLog' = Append(expandLog, [itemPath |-> el.ItemPath,
                                                            itemName |-> el.ItemName,
                                                            depth |-> f.depth + 1])
                    ELSE /\ stack' = SetTop(advanced)
                         /\ UNCHANGED <<visited, expandLog>>
    /\ UNCHANGED <<args, ctxDone, rpcCalls, rpcAfterCancel, failure, srvLeft>>
    /\ UNCHANGED <<rtVars, dtVars>>

\* The for loop is over: browseOpcChildren returns nil to its caller.
ReturnNil ==
    /\ pc = "running"
    /\ stack # <<>>
    /\ Top.phase = "loop"
    /\ Top.idx > Len(Top.elements)
    /\ stack' = SubSeq(stack, 1, Len(stack) - 1)
    /\ IF Len(stack) = 1
       THEN pc' = "done" /\ result' = NilResult
       ELSE UNCHANGED <<pc, result>>
    /\ UNCHANGED <<args, visited, out, ctxDone, rpcCalls, rpcAfterCancel, expandLog, emitLog,
                   failure, srvLeft>>
    /\ UNCHANGED <<rtVars, dtVars>>

\* The caller's context is cancelled (or its deadline passes).
Cancel ==
    /\ pc \in {"init", "running"}
    /\ ~ctxDone
    /\ ctxDone' = TRUE
    /\ UNCHANGED <<pc, args, stack, visited, out, result, rpcCalls, rpcAfterCancel, expandLog,
                   emitLog, failure, srvLeft>>
    /\ UNCHANGED <<rtVars, dtVars>>

\* The server lists nodes: every entry of a page is an element.
FetchNodes == FetchPage(Elements)

\* A BrowseContext implementation that hands back pages with nil entries.
FetchNodesOrNil == FetchPage(ElementsOrNil)

(***************************************************************************)
(* net_debug.go: header names, redaction, the body preview.                *)
(***************************************************************************)
HeaderAuthorization == <<65, 117, 116, 104, 111, 114, 105, 122, 97, 116, 105, 111, 110>>
HeaderProxyAuthorization ==
    <<80, 114, 111, 120, 121, 45, 65, 117, 116, 104, 111, 114, 105, 122, 97, 116, 105, 111, 110>>
HeaderCookie == <<67, 111, 111, 107, 105, 101>>
HeaderSetCookie == <<83, 101, 116, 45, 67, 111, 111, 107, 105, 101>>

\* case "Authorization", "Proxy-Authorization", "Cookie", "Set-Cookie"
SensitiveNames == {HeaderAuthorization, HeaderProxyAuthorization, HeaderCookie, HeaderSetCookie}

Redacted == "<redacted>"

IsUpperLetter(c) == c >= 65 /\ c <= 90
IsLowerLetter(c) == c >= 97 /\ c <= 122
IsDigit(c) == c >= 48 /\ c <= 57
ToUpper(c) == IF IsLowerLetter(c) THEN c - 32 ELSE c
ToLower(c) == IF IsUpperLetter(c) THEN c + 32 ELSE c

\* The bytes of an HTTP token: letters, digits and !#$%&'*+-.^_`|~
IsTokenByte(c) ==
    \/ IsUpperLetter(c) \/ IsLowerLetter(c) \/ IsDigit(c)
    \/ c \in {33, 35, 36, 37, 38, 39, 42, 43, 45, 46, 94, 95, 96, 124, 126}

\* http.CanonicalHeaderKey: a key with a byte that is no token byte is
\* returned as it is; otherwise the first letter and every letter after a
\* hyphen is put in upper case, every other letter in lower case.
CanonicalHeaderKey(key) ==
    IF \E i \in 1..Len(key) : ~IsTokenByte(key[i]) THEN key
    ELSE [i \in 1..Len(key) |->
            IF i = 1 \/ key[i - 1] = 45 THEN ToUpper(key[i]) ELSE ToLower(key[i])]

\* A slip in the match: the key is compared as it is spelled.
isSensitiveHeaderExact(key) == key \in SensitiveNames

isSensitiveHeader(key) == CanonicalHeaderKey(key) \in SensitiveNames

redactHeaders(headers) ==
    [key \in DOMAIN headers |->
        IF isSensitiveHeader(key) THEN <<Redacted>> ELSE headers[key]]

\* A slip in the comparison: a body of exactly limit bytes counts as cut.
bodyPreviewBelowLimit(body, limit) ==
    IF limit <= 0 THEN [preview |-> <<>>, truncated |-> Len(body) > 0]
    ELSE IF Len(body) < limit THEN [preview |-> body, truncated |-> FALSE]
    ELSE [preview |-> SubSeq(body, 1, limit), truncated |-> TRUE]

\* bodyPreview's two results.
bodyPreview(body, limit) ==
    IF limit <= 0 THEN [preview |-> <<>>, truncated |-> Len(body) > 0]
    ELSE IF Len(body) <= limit THEN [preview |-> body, truncated |-> FALSE]
    ELSE [preview |-> SubSeq(body, 1, limit), truncated |-> TRUE]

(***************************************************************************)
(* Requests, responses, and what the underlying RoundTripper does.         *)
(***************************************************************************)
NoHeaders == <<>>

\* An *http.Request. readErr is the error its Body's Read ends with ("" for
\* io.EOF after the last byte).
Request(headers, hasBody, body, readErr) ==
    [method |-> "POST", url |-> "http://opc.example/da", headers |-> headers,
     contentLength |-> Len(body), hasBody |-> hasBody, body |-> body, readErr |-> readErr]

NoRequest == Request(NoHeaders, FALSE, <<>>, "")

\* An *http.Response; wrapped says that its Body is a loggedBody.
Response(headers, hasBody, body) ==
    [isNil |-> FALSE, status |-> "200 OK", statusCode |-> 200, headers |-> headers,
     contentLength |-> Len(body), hasBody |-> hasBody, body |-> body, wrapped |-> FALSE]

NilResponse ==
    [isNil |-> TRUE, status |-> "", statusCode |-> 0, headers |-> NoHeaders,
     contentLength |-> 0, hasBody |-> FALSE, body |-> <<>>, wrapped |-> FALSE]

\* What base.RoundTrip returns: a response and no error, or no response and
\* an error.
Succeeds(resp) == [resp |-> resp, err |-> ""]
Fails(err) == [resp |-> NilResponse, err |-> err]

\* A body of n bytes.
Body(n) == [i \in 1..n |-> i]

SingleHeader(key, value) == [k \in {key} |-> <<value>>]

HeaderAccept == <<65, 99, 99, 101, 112, 116>>                          \* "Accept"
HeaderXCookie == <<88, 45, 67, 111, 111, 107, 105, 101>>               \* "X-Cookie"
HeaderSetSpaceCookie == <<115, 101, 116, 32, 99, 111, 111, 107, 105, 101>> \* "set cookie"

\* The subsets of 1..n of at most k members.
RECURSIVE SmallSubsets(_, _)
SmallSubsets(n, k) ==
    IF k = 0 THEN {{}}
    ELSE LET less == SmallSubsets(n, k - 1)
         IN  less \cup { S \cup {i} : S \in less, i \in 1..n }

\* name with the letters at the positions in upper in upper case, the
\* others in lower case.
Spell(name, upper) ==
    [i \in 1..Len(name) |-> IF i \in upper THEN ToUpper(name[i]) ELSE ToLower(name[i])]

\* The spellings of name with at most MaxCaseFlips letters in upper case, or
\* at most MaxCaseFlips letters in lower case.
Spellings(name) ==
    LET few == SmallSubsets(Len(name), MaxCaseFlips)
    IN  { Spell(name, S) : S \in few } \cup { Spell(name, (1..Len(name)) \ S) : S \in few }

SpelledSensitive == UNION { Spellings(name) : name \in SensitiveNames }
OtherHeaders == {HeaderAccept, HeaderXCookie, HeaderSetSpaceCookie}
Secrets == {"secret-1", "secret-2"}

\* One input of RoundTrip: the request, and what base.RoundTrip makes of it.
Exchange(req, outcome) == [req |-> req, base |-> outcome]

PlainRequest == Request(SingleHeader(HeaderAccept, "text/xml"), FALSE, <<>>, "")
PlainResponse == Response(SingleHeader(HeaderAccept, "text/xml"), FALSE, <<>>)

\* Requests with and without a body, with a body whose Read fails; responses
\* with and without a body, and failures.
BodyExchanges ==
    { Exchange(req, outcome) :
        req \in {PlainRequest}
                \cup { Request(SingleHeader(HeaderAuthorization, "secret-1"), TRUE, Body(n), e) :
                         n \in 0..MaxBody, e \in {"", "read failed"} },
        outcome \in { Fails("dial tcp: refused"), Fails("timeout"), Succeeds(PlainResponse),
                      Succeeds(Response(SingleHeader(HeaderSetCookie, "secret-1"),
                                        TRUE, Body(MaxBody))) } }

\* Requests without a body and with a body whose Read fails; failures, and
\* responses with and without a body.
TraceExchanges ==
    { Exchange(req, outcome) :
        req \in {PlainRequest, Request(NoHeaders, TRUE, Body(1), "read failed")},
        outcome \in { Fails("timeout"), Succeeds(PlainResponse),
                      Succeeds(Response(NoHeaders, TRUE, Body(1))) } }

\* Two exchanges with headers and bodies of their own.
OwnExchanges ==
    { Exchange(Request(SingleHeader(HeaderAccept, "text/xml"), TRUE, <<1>>, ""),
               Succeeds(Response(SingleHeader(HeaderAccept, "text/xml"), FALSE, <<>>))),
      Exchange(Request(SingleHeader(HeaderAuthorization, "secret-1"), TRUE, <<2, 3>>, ""),
               Succeeds(Response(SingleHeader(HeaderSetCookie, "secret-2"), FALSE, <<>>))) }

\* Responses with a body of every size.
ReadExchanges ==
    { Exchange(PlainRequest, Succeeds(Response(NoHeaders, TRUE, Body(n)))) : n \in 0..MaxBody }

\* The exchanges of callers that run side by side.
PlainExchanges ==
    { Exchange(PlainRequest, outcome) :
        outcome \in {Fails("dial tcp: refused"), Succeeds(PlainResponse)} }

\* Requests and responses whose headers are spelled in every way.
SpelledExchanges ==
    { Exchange(Request(SingleHeader(key, secret), FALSE, <<>>, ""),
               Succeeds(Response(SingleHeader(Spell(HeaderSetCookie, {}), secret), FALSE, <<>>))) :
        key \in SpelledSensitive \cup OtherHeaders, secret \in Secrets }
    \cup
    { Exchange(PlainRequest, Succeeds(Response(SingleHeader(key, secret), FALSE, <<>>))) :
        key \in Spellings(HeaderSetCookie) \cup OtherHeaders, secret \in Secrets }

(***************************************************************************)
(* loggingRoundTripper.RoundTrip.                                          *)
(***************************************************************************)
Callers == 1..NumCallers

\* A RoundTrip call: where it is, its locals id and start, its input, the
\* body it handed to base (history), whether it called base (history), what
\* it returned, and the loggedBody it put around the response's body.
\* A loggedBody: pos is how far the underlying body has been read; the
\* history fields say what the underlying body's last Read returned and
\* what Read returned for it, how often Close was called and how often the
\* underlying body was closed, what the underlying body's last Close
\* returned and what Close returned for it.
NewLoggedBody ==
    [pos |-> 0, readBytes |-> 0, buf |-> <<>>, truncated |-> FALSE,
     under |-> [n |-> 0, data |-> <<>>, err |-> ""],
     ret |-> [n |-> 0, data |-> <<>>, err |-> ""],
     closes |-> 0, underCloses |-> 0,
     underClose |-> "", closeRet |-> ""]

IdleCall ==
    [pc |-> "idle", id |-> 0, start |-> 0, req |-> NoRequest, base |-> Fails(""),
     invoked |-> FALSE, sent |-> <<>>, resp |-> NilResponse, err |-> "",
     lb |-> NewLoggedBody]

RTInit ==
    /\ rt = [made |-> FALSE, maxBodyBytes |-> 0, seq |-> 0, base |-> "nil", baseWrites |-> {}]
    /\ calls = [p \in Callers |-> IdleCall]
    /\ events = <<>>
    /\ now = 0

\* &loggingRoundTripper{base: ..., maxBodyBytes: ..., logger: ...}, with a
\* base of bases: "transport" for a transport, "nil" for none. baseWrites
\* (history) is the set of callers whose RoundTrip call has assigned rt.base.
NewRoundTripperOn(budgets, bases) ==
    /\ ~rt.made
    /\ \E budget \in budgets, base \in bases :
        rt' = [made |-> TRUE, maxBodyBytes |-> budget, seq |-> 0, base |-> base,
               baseWrites |-> {}]
    /\ UNCHANGED <<calls, events, now>>
    /\ UNCHANGED <<browseVars, dtVars>>

\* newDebugHTTPClient: base is a clone of http.DefaultTransport.
NewRoundTripper(budgets) == NewRoundTripperOn(budgets, {"transport"})

\* The statements that take the call's id and start, reached at from, with
\* id the value the call takes for its id and stored the value of rt.seq it
\* leaves behind.
BeginFrom(p, from, exchanges, id, stored) ==
    /\ rt.made
    /\ calls[p].pc = from
    /\ \E x \in exchanges :
        calls' = [calls EXCEPT ![p] = [IdleCall EXCEPT !.pc = "capture", !.id = id,
                                                     !.start = now, !.req = x.req,
                                                     !.base = x.base]]
    /\ rt' = [rt EXCEPT !.seq = stored]
    /\ UNCHANGED <<events, now>>
    /\ UNCHANGED <<browseVars, dtVars>>

\* The call's first statements: base := rt.base is a read, and a nil base is
\* replaced in the local variable.
BeginWith(p, exchanges, id, stored) == BeginFrom(p, "idle", exchanges, id, stored)

\* A slip: rt.seq++ without the atomic, so that the store of one call may be
\* lost to another's.
RoundTripBeginRacy(p, exchanges) ==
    \E stored \in {rt.seq, rt.seq + 1} : BeginWith(p, exchanges, rt.seq + 1, stored)

\* id := atomic.AddUint64(&rt.seq, 1); start := time.Now()
RoundTripBegin(p, exchanges) == BeginWith(p, exchanges, rt.seq + 1, rt.seq + 1)

\* RoundTrip of main.go: if rt.base == nil, the test.
MainRoundTripEnter(p) ==
    /\ rt.made
    /\ calls[p].pc = "idle"
    /\ calls' = [calls EXCEPT ![p].pc = IF rt.base = "nil" THEN "setbase" ELSE "enter"]
    /\ UNCHANGED <<rt, events, now>>
    /\ UNCHANGED <<browseVars, dtVars>>

\* RoundTrip of main.go: rt.base = http.DefaultTransport, a plain store.
MainSetBase(p) ==
    /\ calls[p].pc = "setbase"
    /\ rt' = [rt EXCEPT !.base = "default", !.baseWrites = @ \cup {p}]
    /\ calls' = [calls EXCEPT ![p].pc = "enter"]
    /\ UNCHANGED <<events, now>>
    /\ UNCHANGED <<browseVars, dtVars>>

\* RoundTrip of main.go: id := atomic.AddUint64(&netDebugSeq, 1) and
\* start := time.Now(); seq stands for the package's counter.
MainRoundTripBegin(p, exchanges) == BeginFrom(p, "enter", exchanges, rt.seq + 1, rt.seq + 1)

\* req.Body = io.NopCloser(bytes.NewReader(bodyBytes)): the bytes the new
\* body yields.
RestoredBody(bodyBytes) == bodyBytes

RequestEvent(c, size, pv) ==
    [msg |-> "http request", id |-> c.id, at |-> now, method |-> c.req.method,
     url |-> c.req.url, headers |-> redactHeaders(c.req.headers),
     content_length |-> c.req.contentLength, body_size |-> size,
     body_truncated |-> pv.truncated, body_preview |-> pv.preview]

\* The request's headers and body are captured and the "http request" record
\* is logged; a body whose Read fails ends the call.
CaptureRequest(p) ==
    /\ calls[p].pc = "capture"
    /\ LET c == calls[p] IN
       IF c.req.hasBody /\ c.req.readErr # ""
       THEN /\ calls' = [calls EXCEPT ![p] = [c EXCEPT !.pc = "done", !.resp = NilResponse,
                                                      !.err = c.req.readErr]]
            /\ UNCHANGED events
       ELSE /\ calls' = [calls EXCEPT ![p] =
                            [c EXCEPT !.pc = "base",
                                      !.sent = IF c.req.hasBody THEN RestoredBody(c.req.body)
                                               ELSE c.req.body]]
            /\ events' = Append(events,
                    IF c.req.hasBody
                    THEN RequestEvent(c, Len(c.req.body), bodyPreview(c.req.body, rt.maxBodyBytes))
                    ELSE RequestEvent(c, 0, [preview |-> <<>>, truncated |-> FALSE]))
    /\ UNCHANGED <<rt, now>>
    /\ UNCHANGED <<browseVars, dtVars>>

\* The messages of the records the httptrace.ClientTrace hooks log.
TraceDNSStart == "http trace dns start"
TraceDNSDone == "http trace dns done"
TraceConnectStart == "http trace connect start"
TraceConnectDone == "http trace connect done"
TraceTLSHandshakeStart == "http trace tls handshake start"
TraceTLSHandshakeDone == "http trace tls handshake done"
TraceGotConn == "http trace got conn"
TraceWroteHeaders == "http trace wrote headers"
TraceWroteRequest == "http trace wrote request"
TraceFirstResponseByte == "http trace first response byte"

Phases ==
    { TraceDNSStart, TraceDNSDone, TraceConnectStart, TraceConnectDone,
      TraceTLSHandshakeStart, TraceTLSHandshakeDone, TraceGotConn, TraceWroteHeaders,
      TraceWroteRequest, TraceFirstResponseByte }

\* The record a hook logs: its message and "id", then the hook's own
\* attributes (left out here), and "elapsed" in GotFirstResponseByte.
TraceEvent(c, phase) ==
    IF phase = TraceFirstResponseByte
    THEN [msg |-> phase, id |-> c.id, at |-> now, elapsed |-> now - c.start]
    ELSE [msg |-> phase, id |-> c.id, at |-> now]

\* base calls a hook of the trace RoundTrip put in the request's context:
\* while base.RoundTrip runs, or after it has returned (httptrace: hooks "may
\* be called after the request has completed or failed"). base calls at
\* most MaxHooks hooks for one exchange.
TraceHook(p) ==
    /\ calls[p].pc = "base" \/ (calls[p].pc = "done" /\ calls[p].invoked)
    /\ Len(SelectSeq(events, LAMBDA ev : ev.id = calls[p].id /\ ev.msg \in Phases)) < MaxHooks
    /\ \E phase \in Phases : events' = Append(events, TraceEvent(calls[p], phase))
    /\ calls' = [calls EXCEPT ![p].invoked = TRUE]
    /\ UNCHANGED <<rt, now>>
    /\ UNCHANGED <<browseVars, dtVars>>

\* A slip in the error path: the transport's error is wrapped.
ReturnedErrorWrapped(err) == "round trip: " \o err

\* return nil, err
ReturnedError(err) == err

ResponseErrorEvent(c) ==
    [msg |-> "http response error", id |-> c.id, at |-> now, err |-> c.base.err,
     elapsed |-> now - c.start]

ResponseEvent(c) ==
    [msg |-> "http response", id |-> c.id, at |-> now, status |-> c.base.resp.status,
     status_code |-> c.base.resp.statusCode, headers |-> redactHeaders(c.base.resp.headers),
     content_length |-> c.base.resp.contentLength, elapsed |-> now - c.start]

\* base.RoundTrip(req) and what follows it.
BaseRoundTrip(p) ==
    /\ calls[p].pc = "base"
    /\ LET c == calls[p] IN
       IF c.base.err # ""
       THEN /\ events' = Append(events, ResponseErrorEvent(c))
            /\ calls' = [calls EXCEPT ![p] = [c EXCEPT !.pc = "done", !.invoked = TRUE,
                                                      !.resp = NilResponse,
                                                      !.err = ReturnedError(c.base.err)]]
       ELSE /\ events' = Append(events, ResponseEvent(c))
            /\ calls' = [calls EXCEPT ![p] =
                            [c EXCEPT !.pc = "done", !.invoked = TRUE, !.err = "",
                                      !.resp = [c.base.resp EXCEPT !.wrapped = c.base.resp.hasBody]]]
    /\ UNCHANGED <<rt, now>>
    /\ UNCHANGED <<browseVars, dtVars>>

\* What a Read returns: the byte count, the bytes it put in p, the error.
ReadResult(n, data, err) == [n |-> n, data |-> data, err |-> err]

\* The errors the underlying body's Read returns: none, io.EOF with or
\* after the last byte, and a failure at any time.
ReadErrors == {"", "EOF", "connection reset"}

\* A slip in the capture: a chunk is written whole while there is room.
CaptureWhileRoom(buf, truncated, chunk, budget) ==
    IF Len(chunk) = 0 THEN [buf |-> buf, truncated |-> truncated]
    ELSE IF budget - Len(buf) > 0 THEN [buf |-> buf \o chunk, truncated |-> truncated]
    ELSE [buf |-> buf, truncated |-> TRUE]

\* A slip in the capture: a chunk that does not fit is dropped whole.
CaptureChunksThatFit(buf, truncated, chunk, budget) ==
    IF Len(chunk) = 0 THEN [buf |-> buf, truncated |-> truncated]
    ELSE IF Len(chunk) <= budget - Len(buf) THEN [buf |-> buf \o chunk, truncated |-> truncated]
    ELSE [buf |-> buf, truncated |-> TRUE]

\* What Read makes of lb.buf and lb.truncated when the underlying Read has
\* put chunk in p (n = Len(chunk)). int(lb.maxBodyBytes) is budget itself for
\* every budget an int holds.
Capture(buf, truncated, chunk, budget) ==
    LET n == Len(chunk)
        remaining == budget - Len(buf)
    IN  IF n > 0
        THEN IF remaining > 0
             THEN IF n > remaining
                  THEN [buf |-> buf \o SubSeq(chunk, 1, remaining), truncated |-> TRUE]
                  ELSE [buf |-> buf \o chunk, truncated |-> truncated]
             ELSE [buf |-> buf, truncated |-> TRUE]
        ELSE [buf |-> buf, truncated |-> truncated]

\* A slip in the return: io.EOF is kept from the consumer.
ReadReturnsWithoutEOF(under) == [under EXCEPT !.err = IF @ = "EOF" THEN "" ELSE @]

\* return n, err
ReadReturns(under) == under

\* loggedBody.Read: the underlying body's Read hands over its next n bytes
\* and err, before or after Close.
LoggedBodyRead(p) ==
    /\ calls[p].pc = "done"
    /\ calls[p].resp.wrapped
    /\ LET c == calls[p]
           lb == c.lb
           rest == Len(c.resp.body) - lb.pos
       IN  \E n \in 0..rest, err \in ReadErrors :
            /\ n > 0 \/ err # ""
            /\ err = "EOF" => n = rest
            /\ LET chunk == SubSeq(c.resp.body, lb.pos + 1, lb.pos + n)
                   under == ReadResult(n, chunk, err)
                   captured == Capture(lb.buf, lb.truncated, chunk, rt.maxBodyBytes)
               IN  calls' = [calls EXCEPT ![p].lb =
                      [lb EXCEPT !.pos = lb.pos + n,
                                 !.readBytes = IF n > 0 THEN lb.readBytes + n ELSE lb.readBytes,
                                 !.buf = captured.buf,
                                 !.truncated = captured.truncated,
                                 !.under = under,
                                 !.ret = ReadReturns(under)]]
    /\ UNCHANGED <<rt, events, now>>
    /\ UNCHANGED <<browseVars, dtVars>>

ResponseBodyEvent(c) ==
    [msg |-> "http response body", id |-> c.id, at |-> now, bytes_read |-> c.lb.readBytes,
     body_truncated |-> c.lb.truncated, body_preview |-> c.lb.buf,
     elapsed |-> now - c.start]

\* The errors the underlying body's Close returns: none, or a failure.
CloseErrors == {"", "close failed"}

\* A slip in the return: the underlying Close's error is dropped.
CloseReturnsNil(err) == ""

\* return err
CloseReturns(err) == err

\* loggedBody.Close: the underlying body is closed, with an error of errs,
\* and the record is logged, at every call.
LoggedBodyCloseWith(p, errs) ==
    /\ calls[p].pc = "done"
    /\ calls[p].resp.wrapped
    /\ calls[p].lb.closes < MaxCloses
    /\ events' = Append(events, ResponseBodyEvent(calls[p]))
    /\ \E err \in errs :
        calls' = [calls EXCEPT ![p].lb.closes = @ + 1, ![p].lb.underCloses = @ + 1,
                               ![p].lb.underClose = err, ![p].lb.closeRet = CloseReturns(err)]
    /\ UNCHANGED <<rt, now>>
    /\ UNCHANGED <<browseVars, dtVars>>

\* Close on a body whose own Close succeeds.
LoggedBodyClose(p) == LoggedBodyCloseWith(p, {""})

\* Time passes.
Tick ==
    /\ now < MaxTime
    /\ now' = now + 1
    /\ UNCHANGED <<rt, calls, events>>
    /\ UNCHANGED <<browseVars, dtVars>>

(***************************************************************************)
(* service/xsd_datetime.go: time.Time, time.Parse and Time.Format with the *)
(* layout time.RFC3339Nano, parseXsdDateTime and MarshalXMLAttr.           *)
(***************************************************************************)
CharT == 84         \* 'T'
CharZ == 90         \* 'Z'
CharPlus == 43      \* '+'
CharMinus == 45     \* '-'
CharColon == 58     \* ':'
CharPeriod == 46    \* '.'
CharComma == 44     \* ','
CharZero == 48      \* '0'

SecondsPerDay == 86400

\* strings.Contains(s, c) for a one-byte c.
Contains(s, c) == \E i \in 1..Len(s) : s[i] = c

\* strings.SplitN(s, c, 2)[1] for an s that contains c.
AfterFirst(s, c) ==
    LET i == CHOOSE k \in 1..Len(s) : s[k] = c /\ \A j \in 1..(k - 1) : s[j] # c
    IN  SubSeq(s, i + 1, Len(s))

\* A time.Time: the instant as the day since 0001-01-01 and the second of
\* that day, both in UTC, the nanosecond, and the offset of its location in
\* minutes east of UTC.
Time(day, sec, nsec, offset) == [day |-> day, sec |-> sec, nsec |-> nsec, offset |-> offset]

\* time.Time{}
ZeroTime == Time(0, 0, 0, 0)

\* t.IsZero(): the instant is January 1, year 1, 00:00:00 UTC.
IsZero(t) == t.day = 0 /\ t.sec = 0 /\ t.nsec = 0

IsLeap(y) == y % 4 = 0 /\ (y % 100 # 0 \/ y % 400 = 0)

DaysIn(m, y) ==
    IF m = 2 THEN (IF IsLeap(y) THEN 29 ELSE 28)
    ELSE IF m \in {4, 6, 9, 11} THEN 30 ELSE 31

RECURSIVE DaysBeforeMonth(_, _)
DaysBeforeMonth(m, y) == IF m = 1 THEN 0 ELSE DaysBeforeMonth(m - 1, y) + DaysIn(m - 1, y)

\* The days from 0001-01-01 to the first day of year y >= 1.
DaysBeforeYear(y) == 365 * (y - 1) + (y - 1) \div 4 - (y - 1) \div 100 + (y - 1) \div 400

\* time.Date(y, m, d, h, mi, s, nsec, loc) for a location offset minutes
\* east of UTC.
Date(y, m, d, h, mi, s, nsec, offset) ==
    LET days == DaysBeforeYear(y) + DaysBeforeMonth(m, y) + (d - 1)
        secs == h * 3600 + mi * 60 + s - offset * 60
        carry == IF secs < 0 THEN -1 ELSE IF secs >= SecondsPerDay THEN 1 ELSE 0
    IN  Time(days + carry, secs - carry * SecondsPerDay, nsec, offset)

\* The wall clock of t in its location: year, month, day, hour, minute,
\* second.
Clock(t) ==
    LET secs == t.sec + t.offset * 60
        carry == IF secs < 0 THEN -1 ELSE IF secs >= SecondsPerDay THEN 1 ELSE 0
        day == t.day + carry
        sod == secs - carry * SecondsPerDay
        y == IF day < 0 THEN 0
             ELSE CHOOSE yy \in ((day \div 366) + 1)..((day \div 365) + 1) :
                    DaysBeforeYear(yy) <= day /\ day < DaysBeforeYear(yy + 1)
        yday == IF day < 0 THEN day + 366 ELSE day - DaysBeforeYear(y)
        m == CHOOSE mm \in 1..12 :
                DaysBeforeMonth(mm, y) <= yday /\ yday < DaysBeforeMonth(mm, y) + DaysIn(mm, y)
    IN  [year |-> y, month |-> m, day |-> yday - DaysBeforeMonth(m, y) + 1,
         hour |-> sod \div 3600, minute |-> (sod % 3600) \div 60, second |-> sod % 60]

\* The number the width bytes of s from position i spell, or -1 when they
\* are not all there or not all digits.
RECURSIVE ParseNum(_, _, _)
ParseNum(s, i, width) ==
    IF width = 0 THEN 0
    ELSE IF i + width - 1 > Len(s) \/ ~IsDigit(s[i + width - 1]) THEN -1
    ELSE LET high == ParseNum(s, i, width - 1)
         IN  IF high < 0 THEN -1 ELSE high * 10 + (s[i + width - 1] - CharZero)

\* The number of digits of s from position i on.
RECURSIVE DigitRun(_, _)
DigitRun(s, i) == IF i <= Len(s) /\ IsDigit(s[i]) THEN 1 + DigitRun(s, i + 1) ELSE 0

RECURSIVE Pow10(_)
Pow10(n) == IF n = 0 THEN 1 ELSE 10 * Pow10(n - 1)

\* n in decimal, in width digits.
RECURSIVE Pad(_, _)
Pad(n, width) ==
    IF width = 0 THEN <<>> ELSE Pad(n \div 10, width - 1) \o <<CharZero + (n % 10)>>

\* What time.Parse returns: the time and no error, or time.Time{} and an
\* error that names the text.
Parsed(t) == [t |-> t, failed |-> FALSE, value |-> <<>>]
ParseError(value) == [t |-> ZeroTime, failed |-> TRUE, value |-> value]

\* The zone of the layout's "Z07:00" at position i, the last part of the
\* text: "Z", or a sign, two digits, a colon and two digits. The offset in
\* minutes, or none.
ZoneAt(s, i) ==
    IF Len(s) = i /\ s[i] = CharZ THEN [ok |-> TRUE, offset |-> 0]
    ELSE IF /\ Len(s) = i + 5
            /\ s[i] \in {CharPlus, CharMinus}
            /\ s[i + 3] = CharColon
            /\ ParseNum(s, i + 1, 2) \in 0..23
            /\ ParseNum(s, i + 4, 2) \in 0..59
         THEN [ok |-> TRUE,
               offset |-> (IF s[i] = CharMinus THEN -1 ELSE 1)
                              * (ParseNum(s, i + 1, 2) * 60 + ParseNum(s, i + 4, 2))]
         ELSE [ok |-> FALSE, offset |-> 0]

\* time.Parse(time.RFC3339Nano, value), layout
\* "2006-01-02T15:04:05.999999999Z07:00": the date, 'T', the time of day, a
\* fraction of up to nine digits that may be left out, and the zone.
TimeParse(value) ==
    LET y == ParseNum(value, 1, 4)
        m == ParseNum(value, 6, 2)
        d == ParseNum(value, 9, 2)
        h == ParseNum(value, 12, 2)
        mi == ParseNum(value, 15, 2)
        s == ParseNum(value, 18, 2)
        hasFrac == /\ Len(value) >= 21
                   /\ value[20] \in {CharPeriod, CharComma}
                   /\ IsDigit(value[21])
        digits == IF hasFrac THEN DigitRun(value, 21) ELSE 0
        zoneFrom == IF hasFrac THEN 21 + digits ELSE 20
        zone == ZoneAt(value, zoneFrom)
    IN  IF /\ Len(value) >= 20
           /\ value[5] = CharMinus /\ value[8] = CharMinus /\ value[11] = CharT
           /\ value[14] = CharColon /\ value[17] = CharColon
           /\ y >= 0 /\ m \in 1..12 /\ d >= 1 /\ h \in 0..23 /\ mi \in 0..59 /\ s \in 0..59
           /\ d <= DaysIn(m, y)
           /\ digits <= 9
           /\ zone.ok
        THEN Parsed(Date(y, m, d, h, mi, s,
                         IF hasFrac THEN ParseNum(value, 21, digits) * Pow10(9 - digits) ELSE 0,
                         zone.offset))
        ELSE ParseError(value)

\* The layout's ".999999999": the nanoseconds without trailing zeros, and
\* nothing for none.
RECURSIVE TrimZeros(_)
TrimZeros(s) ==
    IF s # <<>> /\ s[Len(s)] = CharZero THEN TrimZeros(SubSeq(s, 1, Len(s) - 1)) ELSE s

Fraction(nsec) == IF nsec = 0 THEN <<>> ELSE <<CharPeriod>> \o TrimZeros(Pad(nsec, 9))

\* A slip in the layout: the zone of a time in UTC is left out.
ZoneDesignatorButForUTC(offset) ==
    IF offset = 0 THEN <<>>
    ELSE <<IF offset < 0 THEN CharMinus ELSE CharPlus>>
         \o Pad((IF offset < 0 THEN -offset ELSE offset) \div 60, 2) \o <<CharColon>>
         \o Pad((IF offset < 0 THEN -offset ELSE offset) % 60, 2)

\* The layout's "Z07:00": "Z" for UTC, the signed offset otherwise.
ZoneDesignator(offset) ==
    IF offset = 0 THEN <<CharZ>>
    ELSE <<IF offset < 0 THEN CharMinus ELSE CharPlus>>
         \o Pad((IF offset < 0 THEN -offset ELSE offset) \div 60, 2) \o <<CharColon>>
         \o Pad((IF offset < 0 THEN -offset ELSE offset) % 60, 2)

\* t.Format(time.RFC3339Nano)
FormatRFC3339Nano(t) ==
    LET c == Clock(t)
    IN  Pad(c.year, 4) \o <<CharMinus>> \o Pad(c.month, 2) \o <<CharMinus>> \o Pad(c.day, 2)
        \o <<CharT>> \o Pad(c.hour, 2) \o <<CharColon>> \o Pad(c.minute, 2) \o <<CharColon>>
        \o Pad(c.second, 2) \o Fraction(t.nsec) \o ZoneDesignator(t.offset)

\* "0001-01-01T00:00:00Z"
ZeroDateText ==
    <<48, 48, 48, 49, 45, 48, 49, 45, 48, 49, 84, 48, 48, 58, 48, 48, 58, 48, 48, 90>>

\* What parseXsdDateTime returns: parsed, hasTz, err.
XsdParsed(r, hasTz) == [t |-> r.t, hasTz |-> hasTz, failed |-> r.failed, value |-> r.value]

parseXsdDateTime(value) ==
    IF value = <<>> THEN XsdParsed(Parsed(ZeroTime), TRUE)
    ELSE IF Contains(value, CharT)
    THEN LET timeSegment == AfterFirst(value, CharT)
             hasTz == \/ Contains(timeSegment, CharZ)
                      \/ Contains(timeSegment, CharPlus)
                      \/ Contains(timeSegment, CharMinus)
             zoned == IF hasTz THEN value ELSE value \o <<CharZ>>
         IN  IF zoned = ZeroDateText THEN XsdParsed(Parsed(ZeroTime), TRUE)
             ELSE XsdParsed(TimeParse(zoned), hasTz)
    ELSE LET hasTz == Contains(value, CharZ) \/ Contains(value, CharColon)
             zoned == IF hasTz THEN value ELSE value \o <<CharZ>>
         IN  XsdParsed(TimeParse(zoned), hasTz)

\* soap.CreateXsdDateTime(parsed, hasTz)
CreateXsdDateTime(t, hasTz) == [innerTime |-> t, hasTz |-> hasTz]

\* xdt.ToGoTime(), of the soap package: the time itself when it has a zone,
\* and the same wall clock in time.Local, local minutes east of UTC, when it
\* has none.
ToGoTime(xdt, local) ==
    IF xdt.hasTz THEN xdt.innerTime
    ELSE LET c == Clock(xdt.innerTime)
         IN  Date(c.year, c.month, c.day, c.hour, c.minute, c.second, xdt.innerTime.nsec, local)

\* An xml.Attr: xml.Attr{} for an attribute that is left out.
AbsentAttr == [present |-> FALSE, value |-> <<>>]
Attr(value) == [present |-> TRUE, value |-> value]

\* MarshalXMLAttr and formatXsdDateTime.
formatXsdDateTime(xdt, local) ==
    LET t == ToGoTime(xdt, local)
    IN  IF IsZero(t) THEN AbsentAttr ELSE Attr(FormatRFC3339Nano(t))

\* The texts handed to the codec: dates, times of day, fractions of up to
\* MaxFracDigits digits and zones, well formed and not, the date-only and
\* the time-only forms, and the empty text.
DateTexts ==
    { Pad(1, 4) \o <<CharMinus>> \o Pad(1, 2) \o <<CharMinus>> \o Pad(1, 2),       \* 0001-01-01
      Pad(2020, 4) \o <<CharMinus>> \o Pad(2, 2) \o <<CharMinus>> \o Pad(29, 2),   \* 2020-02-29
      Pad(2021, 4) \o <<CharMinus>> \o Pad(2, 2) \o <<CharMinus>> \o Pad(29, 2),   \* 2021-02-29
      Pad(1999, 4) \o <<CharMinus>> \o Pad(12, 2) \o <<CharMinus>> \o Pad(31, 2) } \* 1999-12-31

ClockTexts ==
    { Pad(h, 2) \o <<CharColon>> \o Pad(mi, 2) \o <<CharColon>> \o Pad(s, 2) :
        <<h, mi, s>> \in {<<0, 0, 0>>, <<2, 0, 0>>, <<23, 59, 59>>, <<24, 0, 0>>} }

FractionTexts ==
    {<<>>} \cup { <<CharPeriod>> \o [i \in 1..k |-> IF i = k THEN CharZero + 5 ELSE CharZero] :
                    k \in 1..MaxFracDigits }

ZoneTexts ==
    { <<>>, <<CharZ>>,
      <<CharPlus>> \o Pad(2, 2) \o <<CharColon>> \o Pad(0, 2),      \* +02:00
      <<CharMinus>> \o Pad(5, 2) \o <<CharColon>> \o Pad(30, 2) }   \* -05:30

Texts ==
    { date \o <<CharT>> \o clock \o fraction \o zone :
        date \in DateTexts, clock \in ClockTexts, fraction \in FractionTexts, zone \in ZoneTexts }
    \cup DateTexts \cup ClockTexts \cup { clock \o <<CharZ>> : clock \in ClockTexts }
    \cup {<<>>, <<CharT>>}

\* The offsets of time.Local, in minutes east of UTC.
LocalOffsets == {0, 120, -330}

NoCodecCall ==
    [op |-> "none", text |-> <<>>, local |-> 0, parsed |-> XsdParsed(Parsed(ZeroTime), FALSE),
     attr |-> AbsentAttr]

DTInit == codec = NoCodecCall

\* UnmarshalXMLAttr: the attribute's text is parsed.
UnmarshalXMLAttr ==
    /\ codec.op = "none"
    /\ \E text \in Texts, local \in LocalOffsets :
        codec' = [NoCodecCall EXCEPT !.op = "parsed", !.text = text, !.local = local,
                                     !.parsed = parseXsdDateTime(text)]
    /\ UNCHANGED <<browseVars, rtVars>>

\* MarshalXMLAttr on the value that UnmarshalXMLAttr has made.
MarshalXMLAttr ==
    /\ codec.op = "parsed"
    /\ ~codec.parsed.failed
    /\ codec' = [codec EXCEPT
                    !.op = "formatted",
                    !.attr = formatXsdDateTime(
                                CreateXsdDateTime(codec.parsed.t, codec.parsed.hasTz),
                                codec.local)]
    /\ UNCHANGED <<browseVars, rtVars>>

(***************************************************************************)
(* The specifications.                                                     *)
(***************************************************************************)
Init == BrowseInit /\ RTInit /\ DTInit

\* The steps of the BrowseOpcTree call.
Step ==
    \/ BrowseOpcTree
    \/ FetchNodes
    \/ LoopStep
    \/ ReturnNil

Next == Step

\* One BrowseOpcTree call on a server that lists nodes.
Spec == Init /\ [][Next]_vars

\* The call, and a caller that may cancel ctx at any moment.
CancelNext ==
    \/ Step
    \/ Cancel

CancelSpec == Init /\ [][CancelNext]_vars

\* The call keeps running, and every svc.BrowseContext call returns.
FairSpec == Init /\ [][Next]_vars /\ WF_vars(Next)

NilNext ==
    \/ BrowseOpcTree
    \/ FetchNodesOrNil
    \/ LoopStep
    \/ ReturnNil
    \/ Cancel

NilSpec == Init /\ [][NilNext]_vars

\* One BrowseOpcTree call with every kind of root, on a server of leaves.
RootNext ==
    \/ BrowseOpcTreeOf(RootLabelArgs)
    \/ FetchPage(Leaves)
    \/ LoopStep
    \/ ReturnNil

RootSpec == Init /\ [][RootNext]_vars

\* One BrowseOpcTree call from an unnamed root with maxDepth 1 or 2, on a
\* server of three elements.
OrderNext ==
    \/ BrowseOpcTreeOn({UnnamedRoot}, {1, 2}, ThreeElements)
    \/ FetchPage(LeavesAndBranch)
    \/ LoopStep
    \/ ReturnNil

OrderSpec == Init /\ [][OrderNext]_vars

\* One BrowseOpcTree call on a server of leaves that answers any request
\* with elements or with a list of errors.
ErrNext ==
    \/ BrowseOpcTreeOn({UnnamedRoot}, {1}, MaxElems)
    \/ FetchPageFrom(Leaves, ErrorResponses)
    \/ LoopStep
    \/ ReturnNil

ErrSpec == Init /\ [][ErrNext]_vars

\* One BrowseOpcTree call with a maxDepth of 1..3 on a server that lists the
\* namespace.
NamespaceNext ==
    \/ BrowseOpcTreeOn(NamespaceRoots, NamespaceDepths, NamespaceSize)
    \/ FetchNamespace
    \/ LoopStep
    \/ ReturnNil

NamespaceSpec == Init /\ [][NamespaceNext]_vars

\* One RoundTrip call, over requests and responses with and without bodies
\* and every outcome of base, and the Close of the response's body, while
\* time passes. (LBSpec has the consumer's Reads.)
RTNext ==
    \/ NewRoundTripper(-1..MaxBudget)
    \/ RoundTripBegin(1, BodyExchanges)
    \/ CaptureRequest(1)
    \/ BaseRoundTrip(1)
    \/ LoggedBodyClose(1)
    \/ Tick

RTSpec == Init /\ [][RTNext]_vars

\* One RoundTrip call that returns a response, and its consumer, who reads
\* the body in chunks of any size and closes it, while time passes.
LBNext ==
    \/ NewRoundTripper(-1..MaxBudget)
    \/ RoundTripBegin(1, ReadExchanges)
    \/ CaptureRequest(1)
    \/ BaseRoundTrip(1)
    \/ LoggedBodyRead(1)
    \/ LoggedBodyClose(1)
    \/ Tick

LBSpec == Init /\ [][LBNext]_vars

\* A timestamp attribute is parsed, and the value is formatted again.
DTNext ==
    \/ UnmarshalXMLAttr
    \/ MarshalXMLAttr

DTSpec == Init /\ [][DTNext]_vars

\* One RoundTrip call whose base calls the trace's hooks, and the Close of
\* the response's body, while time passes.
TraceNext ==
    \/ NewRoundTripper({MaxBudget})
    \/ RoundTripBegin(1, TraceExchanges)
    \/ CaptureRequest(1)
    \/ TraceHook(1)
    \/ BaseRoundTrip(1)
    \/ LoggedBodyClose(1)
    \/ Tick

TraceSpec == Init /\ [][TraceNext]_vars

\* One RoundTrip call that returns a response, and its consumer, who reads
\* the body and closes it, with a Close of the underlying body that may
\* fail.
CloseNext ==
    \/ NewRoundTripper(0..1)
    \/ RoundTripBegin(1, ReadExchanges)
    \/ CaptureRequest(1)
    \/ BaseRoundTrip(1)
    \/ LoggedBodyRead(1)
    \/ LoggedBodyCloseWith(1, CloseErrors)

CloseSpec == Init /\ [][CloseNext]_vars

\* NumCallers goroutines call the RoundTrip of main.go on one
\* loggingRoundTripper, made with a base or without.
MainNext ==
    \/ NewRoundTripperOn({1}, {"nil", "transport"})
    \/ \E p \in Callers : MainRoundTripEnter(p)
    \/ \E p \in Callers : MainSetBase(p)
    \/ \E p \in Callers : MainRoundTripBegin(p, OwnExchanges)
    \/ \E p \in Callers : CaptureRequest(p)
    \/ \E p \in Callers : BaseRoundTrip(p)

MainSpec == Init /\ [][MainNext]_vars

\* NumCallers goroutines call the RoundTrip of net_debug.go on one
\* loggingRoundTripper, made with a base or without.
OwnNext ==
    \/ NewRoundTripperOn({1}, {"nil", "transport"})
    \/ \E p \in Callers : RoundTripBegin(p, OwnExchanges)
    \/ \E p \in Callers : CaptureRequest(p)
    \/ \E p \in Callers : BaseRoundTrip(p)

OwnSpec == Init /\ [][OwnNext]_vars

\* NumCallers goroutines call RoundTrip on one loggingRoundTripper.
ConcNext ==
    \/ NewRoundTripper({MaxBudget})
    \/ \E p \in Callers : RoundTripBegin(p, PlainExchanges)
    \/ \E p \in Callers : CaptureRequest(p)
    \/ \E p \in Callers : BaseRoundTrip(p)

ConcSpec == Init /\ [][ConcNext]_vars

\* One RoundTrip call, over every spelling of the header names.
HdrNext ==
    \/ NewRoundTripper({MaxBudget})
    \/ RoundTripBegin(1, SpelledExchanges)
    \/ CaptureRequest(1)
    \/ BaseRoundTrip(1)

HdrSpec == Init /\ [][HdrNext]_vars

(***************************************************************************)
(* Properties of BrowseOpcTree.                                            *)
(***************************************************************************)
SameNode(a, b) == a.itemPath = b.itemPath /\ a.itemName = b.itemName

\* An emitted element that browseOpcChildren would descend into, were it new.
Expandable(e) == e.el.HasChildren /\ e.depth < args.maxDepth

IsBrowseError(r) == r.kind \in {"browse: %w", "browse: empty response", "browse: %s"}

\* C1: within one BrowseOpcTree call, fetchBrowseElements is started at most
\* once for any node identity (itemPath, itemName).
ExpandedAtMostOnce ==
    \A i, j \in 1..Len(expandLog) : i < j => ~SameNode(expandLog[i], expandLog[j])

\* C1's case: the walk is over, and it has listed an expandable element
\* whose identity is the root's, which was expanded once only.
RootIdentityListedAgain ==
    /\ pc = "done"
    /\ result = NilResult
    /\ \E k \in 1..Len(emitLog) :
        /\ Expandable(emitLog[k])
        /\ emitLog[k].el.ItemPath = args.itemPath
        /\ emitLog[k].el.ItemName = args.itemName
    /\ Cardinality({ i \in 1..Len(expandLog) : SameNode(expandLog[i], args) }) = 1

\* The steps a browseOpcChildren call has left, at most: its page fetches,
\* ElementCost for each element it holds, and its return. ElementCost pays
\* for writing the element and for the call that may descend into it.
ElementCost == MaxPages + 2

FrameRank(f) ==
    IF f.phase = "fetch"
    THEN (MaxPages - Len(f.pages)) + Len(f.all) * ElementCost + 1
    ELSE (Len(f.elements) - f.idx + 1) * ElementCost + 1

RECURSIVE StackRank(_)
StackRank(st) == IF st = <<>> THEN 0 ELSE FrameRank(Head(st)) + StackRank(Tail(st))

\* The steps BrowseOpcTree has left, at most, with a server that has srvLeft
\* elements left to serve.
Rank ==
    IF pc = "init" THEN MaxElems * ElementCost + MaxPages + 2
    ELSE srvLeft * ElementCost + StackRank(stack)

EventuallyReturns == <>(pc = "done")

ReturnsConcatenationOfPages ==
    \A i \in 1..Len(stack) :
        (stack[i].phase = "loop" /\ stack[i].pages # <<>>)
            => stack[i].returned = Flatten(PageElements(stack[i].pages))

\* C3's case: a listing of two pages, both with elements, that differ.
TwoPagesMerged ==
    \E i \in 1..Len(stack) :
        /\ stack[i].phase = "loop"
        /\ Len(stack[i].pages) = 2
        /\ stack[i].pages[1].elems # <<>>
        /\ stack[i].pages[2].elems # <<>>
        /\ stack[i].pages[1].elems # stack[i].pages[2].elems

\* C4: once a page fetch has failed, BrowseOpcTree has returned an error, no
\* element of the failing listing has been written, and no RPC and no output
\* line follows.
FetchFailureAborts ==
    /\ [](failure.failed =>
            /\ pc = "done"
            /\ IsBrowseError(result)
            /\ stack = <<>>
            /\ \A k \in 1..Len(emitLog) : ~SameNode(emitLog[k], failure))
    /\ [][failure.failed => (rpcCalls' = rpcCalls /\ out' = out)]_vars

\* C4's case: a later page of a listing fails after earlier pages brought
\* elements, below a root whose own children were written.
LaterPageFailed ==
    /\ failure.failed
    /\ failure.earlier # <<>>
    /\ Len(out) >= 2

\* C5: once ctx is cancelled, svc.BrowseContext is not called.
NoRpcOnceCancelled == ~rpcAfterCancel

\* Insertion of e behind every element of the sorted s that is not greater.
RECURSIVE InsertStable(_, _)
InsertStable(s, e) ==
    IF s = <<>> THEN <<e>>
    ELSE IF ElementLess(e, Head(s)) THEN <<e>> \o s
    ELSE <<Head(s)>> \o InsertStable(Tail(s), e)

RECURSIVE StableSortByLabel(_)
StableSortByLabel(s) ==
    IF s = <<>> THEN <<>>
    ELSE InsertStable(StableSortByLabel(SubSeq(s, 1, Len(s) - 1)), s[Len(s)])

\* C6: the elements of a listing are written in the order of their labels,
\* and elements with equal labels in the order the server returned them.
SiblingsSortedStably ==
    \A i \in 1..Len(stack) :
        (stack[i].phase = "loop" /\ stack[i].pages # <<>>)
            => stack[i].elements = StableSortByLabel(stack[i].returned)

(***************************************************************************)
(* Properties of loggingRoundTripper.RoundTrip.                            *)
(***************************************************************************)
Begun == { p \in Callers : calls[p].pc # "idle" }

IssuedIds == { calls[p].id : p \in Begun }

\* The events of exchange id, in the order of their emission.
EventsOf(id) == SelectSeq(events, LAMBDA ev : ev.id = id)

\* The number of events of exchange id with message msg.
CountOf(id, msg) == Len(SelectSeq(events, LAMBDA ev : ev.id = id /\ ev.msg = msg))

\* C7: the calls made side by side on one loggingRoundTripper get ids that
\* differ from one another; the ids issued are 1..seq with none issued twice
\* and none left out; and each call that begins gets an id above every id
\* issued before it.
IdsDistinctInOrder ==
    /\ [](/\ \A p, q \in Begun : p # q => calls[p].id # calls[q].id
          /\ IssuedIds = 1..rt.seq
          /\ Cardinality(Begun) = rt.seq)
    /\ [][\A p \in Callers :
            (calls[p].pc = "idle" /\ calls'[p].pc # "idle")
                => /\ \A i \in IssuedIds : calls'[p].id > i
                   /\ calls'[p].id = rt'.seq]_vars

\* Every caller is inside RoundTrip at once, each between its increment and
\* its return.
AllCallsInFlight ==
    /\ \A p \in Callers : calls[p].pc \in {"capture", "base"}
    /\ Cardinality(IssuedIds) = NumCallers

\* A header name's letters in lower case.
LowerCase(key) == [i \in 1..Len(key) |-> ToLower(key[i])]

\* key spells authorization, proxy-authorization, cookie or set-cookie in
\* some mix of upper and lower case.
NamesSecret(key) == \E name \in SensitiveNames : LowerCase(key) = LowerCase(name)

\* headers with every value of a header whose name names a secret replaced.
WithSecret(headers, secret) ==
    [key \in DOMAIN headers |-> IF NamesSecret(key) THEN <<secret>> ELSE headers[key]]

\* traced is what the trace may show of original.
TracedAsRedacted(traced, original) ==
    /\ DOMAIN traced = DOMAIN original
    /\ \A key \in DOMAIN original :
        IF NamesSecret(key)
        THEN /\ traced[key] = <<Redacted>>
             /\ \A i \in 1..Len(original[key]) : original[key][i] # Redacted
        ELSE traced[key] = original[key]
    /\ \A secret \in Secrets : traced = redactHeaders(WithSecret(original, secret))

\* The headers that the event ev shows were taken from.
OriginalHeaders(ev) ==
    LET p == CHOOSE q \in Callers : calls[q].pc # "idle" /\ calls[q].id = ev.id
    IN  IF ev.msg = "http request" THEN calls[p].req.headers ELSE calls[p].base.resp.headers

\* C8: in every "http request" and "http response" event, a header whose
\* name spells authorization, proxy-authorization, cookie or set-cookie in
\* any case carries "<redacted>" and not its value, every other header
\* carries its values as they were, and the event's headers are those of the
\* exchange that differs only in the secret.
TracedHeadersRedacted ==
    \A i \in 1..Len(events) :
        events[i].msg \in {"http request", "http response"}
            => TracedAsRedacted(events[i].headers, OriginalHeaders(events[i]))

\* A secret header whose name is not in canonical spelling has been traced
\* in an event with message msg.
OddlySpelledSecretIn(msg) ==
    \E i \in 1..Len(events) :
        /\ events[i].msg = msg
        /\ \E key \in DOMAIN events[i].headers :
            /\ NamesSecret(key)
            /\ key \notin SensitiveNames
            /\ events[i].headers[key] = <<Redacted>>
            /\ OriginalHeaders(events[i])[key] \in {<<secret>> : secret \in Secrets}

\* An exchange has been traced whose request and whose response carry a
\* secret under a name that is not in canonical spelling.
OddlySpelledSecretsTraced ==
    OddlySpelledSecretIn("http request") /\ OddlySpelledSecretIn("http response")

\* base.RoundTrip was called in call p and returned an error.
BaseFailed(p) == calls[p].pc = "done" /\ calls[p].invoked /\ calls[p].base.err # ""

OutcomeIsBaseOutcome ==
    \A p \in Callers :
        calls[p].pc = "done" =>
            /\ calls[p].err = calls[p].base.err
            /\ calls[p].resp.isNil = calls[p].base.resp.isNil

(***************************************************************************)
(* Properties of loggedBody.                                               *)
(***************************************************************************)
\* The calls that have returned a response whose body is a loggedBody.
Wrapped == { p \in Callers : calls[p].pc = "done" /\ calls[p].resp.wrapped }

\* C11: whatever Reads a loggedBody has served, its buffer holds at most
\* maxBodyBytes bytes, and none when maxBodyBytes is zero or negative.
BufferWithinBudget ==
    \A p \in Wrapped :
        /\ Len(calls[p].lb.buf) <= rt.maxBodyBytes \/ Len(calls[p].lb.buf) = 0
        /\ rt.maxBodyBytes <= 0 => calls[p].lb.buf = <<>>

\* A buffer is full and more bytes than it holds have been read.
BufferFullAndMoreRead ==
    \E p \in Wrapped :
        /\ rt.maxBodyBytes > 0
        /\ Len(calls[p].lb.buf) = rt.maxBodyBytes
        /\ calls[p].lb.readBytes > rt.maxBodyBytes

\* The body of call p has been read to its end.
ReadToEnd(p) == p \in Wrapped /\ calls[p].lb.pos = Len(calls[p].resp.body)

\* C12: when a body of N bytes has been read to its end through a loggedBody
\* with a budget B >= 0, in chunks of any sizes, the buffer holds the first
\* min(N, B) bytes of the body and truncated is true exactly when N > B.
PreviewIsPrefixOfBody ==
    \A p \in Callers :
        (ReadToEnd(p) /\ rt.maxBodyBytes >= 0) =>
            LET N == Len(calls[p].resp.body)
                B == rt.maxBodyBytes
            IN  /\ calls[p].lb.buf = SubSeq(calls[p].resp.body, 1, Min(N, B))
                /\ calls[p].lb.truncated <=> N > B

\* A body longer than the budget has been read to its end in more than one
\* chunk, and a shorter one as well.
LongBodyReadInChunks ==
    \E p \in Callers :
        /\ ReadToEnd(p)
        /\ rt.maxBodyBytes > 0
        /\ Len(calls[p].resp.body) > rt.maxBodyBytes
        /\ calls[p].lb.under.n > 0
        /\ calls[p].lb.under.n < Len(calls[p].resp.body)
        /\ calls[p].lb.truncated

\* C13: a Read returns the byte count, the bytes and the error that the
\* underlying body's Read returned for it, whether or not the budget is
\* used up; and truncated, once true, stays true.
ReadPassesThrough ==
    /\ [](\A p \in Wrapped : calls[p].lb.ret = calls[p].lb.under)
    /\ [][\A p \in Callers :
            (p \in Wrapped /\ calls[p].lb.truncated) => calls'[p].lb.truncated]_vars

\* A Read has handed bytes and io.EOF to the consumer after the budget was
\* used up.
ReadPassedBeyondBudget ==
    \E p \in Wrapped :
        /\ calls[p].lb.truncated
        /\ calls[p].lb.readBytes > Len(calls[p].lb.buf)
        /\ calls[p].lb.ret.n > 0
        /\ Len(calls[p].lb.ret.data) = calls[p].lb.ret.n
        /\ calls[p].lb.ret.err = "EOF"

(***************************************************************************)
(* Properties of the request capture.                                      *)
(***************************************************************************)
\* The "http request" event of exchange id.
RequestEventOf(id) ==
    LET i == CHOOSE j \in 1..Len(events) : events[j].id = id /\ events[j].msg = "http request"
    IN  events[i]

\* The call p has logged the request it carries a body for.
BodyCaptured(p) == calls[p].pc \in {"base", "done"} /\ calls[p].req.hasBody
    /\ calls[p].req.readErr = ""

Max(a, b) == IF a >= b THEN a ELSE b

ErrorNamesFailedNode ==
    failure.failed =>
        /\ result = FetchError(failure.itemPath, failure.itemName, failure.cause)
        /\ \A i \in 1..Len(expandLog) :
            ~SameNode(expandLog[i], failure)
                => FetchError(expandLog[i].itemPath, expandLog[i].itemName, failure.cause)
                       # result

\* C16: no element is written at a depth above maxDepth, no listing is made
\* of an element at depth maxDepth (the root's children are at depth 1, so
\* every listing is one of elements at a depth up to maxDepth), and with
\* maxDepth <= 0 the call makes no svc.BrowseContext call and writes nothing
\* but the root's label.
DepthBounded ==
    /\ \A i \in 1..Len(emitLog) : emitLog[i].depth >= 1 /\ emitLog[i].depth <= args.maxDepth
    /\ \A i \in 1..Len(expandLog) : expandLog[i].depth - 1 < args.maxDepth
    /\ \A i \in 1..Len(stack) : stack[i].depth <= args.maxDepth
    /\ rpcCalls > 0 => args.maxDepth >= 1
    /\ (pc # "init" /\ args.maxDepth <= 0) =>
            /\ pc = "done"
            /\ rpcCalls = 0
            /\ stack = <<>>
            /\ Len(out) <= 1

\* A traversal has returned nil after it wrote, at depth maxDepth, a branch
\* that no listing was made of.
BranchAtBoundLeftClosed ==
    /\ pc = "done"
    /\ result = NilResult
    /\ \E i \in 1..Len(emitLog) :
        /\ emitLog[i].depth = args.maxDepth
        /\ emitLog[i].el.HasChildren
        /\ makeBrowseKey(emitLog[i].el.ItemPath, emitLog[i].el.ItemName) \notin visited

\* The label of the root the call was made with: its name; without a name
\* its path; without either the root placeholder.
ExpectedRootLabel ==
    CASE args.itemName # EmptyStr -> args.itemName
      [] args.itemName = EmptyStr /\ args.itemPath # EmptyStr -> args.itemPath
      [] args.itemName = EmptyStr /\ args.itemPath = EmptyStr -> RootPlaceholder

\* C17: the first line written is the root's label, the name before the
\* path before the root placeholder and never the "<unnamed>" one, and it is
\* written before any svc.BrowseContext call and before any element.
RootLabelWrittenFirst ==
    /\ out # <<>> => /\ Head(out) = ExpectedRootLabel \o Newline
                     /\ Head(out) # UnnamedPlaceholder \o Newline
    /\ (rpcCalls > 0 \/ emitLog # <<>>) => out # <<>>
    /\ Len(out) = Len(emitLog) + (IF out # <<>> THEN 1 ELSE 0)

\* A root that has a path and no name has been labelled and listed.
RootLabelledByPath ==
    /\ args.itemName = EmptyStr
    /\ args.itemPath # EmptyStr
    /\ out # <<>>
    /\ Head(out) = args.itemPath \o Newline
    /\ rpcCalls > 0

(***************************************************************************)
(* Properties of loggedBody.Close.                                         *)
(***************************************************************************)
\* C20: an exchange has at most one "http response body" event, which is
\* its last event, and the underlying body is closed at most once, however
\* often Close is called.
ResponseBodyLoggedOnce ==
    \A p \in Wrapped :
        LET mine == EventsOf(calls[p].id)
        IN  /\ CountOf(calls[p].id, "http response body") <= 1
            /\ calls[p].lb.underCloses <= 1
            /\ calls[p].lb.closes >= 1 => mine[Len(mine)].msg = "http response body"

(***************************************************************************)
(* Properties of the timestamp codec.                                      *)
(***************************************************************************)
\* text has the separator "T" and no "Z", "+" or "-" after it.
Zoneless(text) ==
    /\ Contains(text, CharT)
    /\ ~Contains(AfterFirst(text, CharT), CharZ)
    /\ ~Contains(AfterFirst(text, CharT), CharPlus)
    /\ ~Contains(AfterFirst(text, CharT), CharMinus)

\* C18: for every text with a "T" and no "Z", "+" or "-" after it,
\* parseXsdDateTime returns hasTz = false and the time, or the error, that it
\* returns for the text with "Z" appended, for which it returns hasTz =
\* true.
ZonelessParsedAsUTC ==
    (codec.op # "none" /\ Zoneless(codec.text)) =>
        LET withZ == parseXsdDateTime(codec.text \o <<CharZ>>)
        IN  /\ codec.parsed.hasTz = FALSE
            /\ withZ.hasTz = TRUE
            /\ codec.parsed.t = withZ.t
            /\ codec.parsed.failed = withZ.failed

\* s ends in "Z" or in a sign, two digits, a colon and two digits.
EndsWithZone(s) ==
    \/ s # <<>> /\ s[Len(s)] = CharZ
    \/ /\ Len(s) >= 6
       /\ s[Len(s) - 5] \in {CharPlus, CharMinus}
       /\ s[Len(s) - 2] = CharColon
       /\ ParseNum(s, Len(s) - 4, 2) >= 0
       /\ ParseNum(s, Len(s) - 1, 2) >= 0

\* The time.Time that MarshalXMLAttr formats in the codec's call.
GoTimeOfCall ==
    ToGoTime(CreateXsdDateTime(codec.parsed.t, codec.parsed.hasTz), codec.local)

TokensChained(f) ==
    /\ \A i \in 1..Len(f.pages) :
        f.pages[i].continuation = (IF i = 1 THEN "" ELSE f.pages[i - 1].token)
    /\ \A i \in 1..(Len(f.pages) - 1) : f.pages[i].more /\ f.pages[i].token # ""

\* C21: in fetchBrowseElements the first request carries the continuation
\* token "", each later request carries the token of the response before
\* it, and no request follows a response that announces no more elements or
\* hands out an empty token: a listing that is still being fetched has a
\* last response with both, and its next request will carry that token.
TokensChainedAndLastPageEnds ==
    \A i \in 1..Len(stack) :
        LET f == stack[i]
        IN  /\ TokensChained(f)
            /\ f.phase = "fetch" =>
                /\ f.continuation = (IF f.pages = <<>> THEN "" ELSE f.pages[Len(f.pages)].token)
                /\ f.pages # <<>> =>
                    f.pages[Len(f.pages)].more /\ f.pages[Len(f.pages)].token # ""

\* C21's case: a listing of two pages whose second request carried the
\* first response's token and whose second response, the last, announced
\* more elements without a token.
ListingEndedByEmptyToken ==
    \E i \in 1..Len(stack) :
        /\ stack[i].phase = "loop"
        /\ Len(stack[i].pages) = 2
        /\ stack[i].pages[1].token = "t2"
        /\ stack[i].pages[2].continuation = "t2"
        /\ stack[i].pages[2].more
        /\ stack[i].pages[2].token = ""

\* The indent of the lines at depth: two spaces for each level.
IndentOf(depth) == [i \in 1..(2 * depth) |-> 32]

\* The line of an element at depth: indent, label, "/" for a branch, "\n".
ExpectedLine(depth, el) ==
    IndentOf(depth) \o browseElementName(el)
                    \o (IF el.HasChildren THEN <<47>> ELSE <<>>) \o <<10>>

\* The elements written for the listing of the node of f, in order.
EmittedFor(f) ==
    LET lines == SelectSeq(emitLog, LAMBDA e : SameNode(e, f))
    IN  [k \in 1..Len(lines) |-> lines[k].el]

IsPrefix(s, t) == Len(s) <= Len(t) /\ SubSeq(t, 1, Len(s)) = s

\* C22: every element of a listing is written once, in the listing's order,
\* as the loop reaches it, with "/" if it has children, whether or not its
\* identity is in visited; what is written stays written; and visited
\* grows only in the step that writes the element whose identity is added,
\* which is the step that starts the listing of its children, before any
\* page of it is requested.
EmittedOnceThenVisited ==
    /\ [](\A i \in 1..Len(stack) :
            stack[i].phase = "loop" =>
                EmittedFor(stack[i]) = SubSeq(stack[i].elements, 1, stack[i].idx - 1))
    /\ [](out # <<>> =>
            /\ Len(out) = Len(emitLog) + 1
            /\ \A k \in 1..Len(emitLog) :
                out[k + 1] = ExpectedLine(emitLog[k].depth, emitLog[k].el))
    /\ [][IsPrefix(emitLog, emitLog') /\ IsPrefix(out, out')]_vars
    /\ [][(pc = "running" /\ visited' # visited) =>
            /\ Len(emitLog') = Len(emitLog) + 1
            /\ LET e == emitLog'[Len(emitLog')]
                   key == makeBrowseKey(e.el.ItemPath, e.el.ItemName)
               IN  /\ key \notin visited
                   /\ visited' = visited \cup {key}
                   /\ e.el.HasChildren
                   /\ stack' # <<>>
                   /\ stack'[Len(stack')].phase = "fetch"
                   /\ stack'[Len(stack')].pages = <<>>
                   /\ stack'[Len(stack')].itemPath = e.el.ItemPath
                   /\ stack'[Len(stack')].itemName = e.el.ItemName
                   /\ rpcCalls' = rpcCalls]_vars

\* C22's case: a listing returned the same branch twice; both entries were
\* written with "/", the second when its identity was in visited, and one
\* listing was made of the branch.
BranchListedTwiceWrittenTwice ==
    /\ pc = "done"
    /\ result = NilResult
    /\ Len(emitLog) = 2
    /\ emitLog[1].el = emitLog[2].el
    /\ emitLog[1].depth = emitLog[2].depth
    /\ Expandable(emitLog[1])
    /\ out[2] = out[3]
    /\ out[3][Len(out[3]) - 1] = 47
    /\ Len(expandLog) = 2

\* The line written before line j that is one level above it and nearest to
\* it: 0 if there is none.
RECURSIVE LineAbove(_, _)
LineAbove(j, i) ==
    IF i = 0 THEN 0
    ELSE IF emitLog[i].depth = emitLog[j].depth - 1 THEN i
    ELSE LineAbove(j, i - 1)

\* C23: the output is a depth-first pre-order. The first element line is at
\* depth 1 and a line is at most one level deeper than the line before it;
\* a line at depth 1 is of a child of the root, and a deeper line is of a
\* child of the nearest line above it one level up, which is a branch, with
\* no line at that level or a higher one in between: a subtree follows its
\* element and ends before the element's next sibling. The lines of one
\* listing are in the order of their labels. The children "b", "a", "c"
\* without children of an unnamed root are sorted to "a", "b", "c", and with
\* maxDepth 1 the output is "<root>", "  a", "  b", "  c".
OutputIsPreOrder ==
    /\ emitLog # <<>> => emitLog[1].depth = 1
    /\ \A j \in 2..Len(emitLog) : emitLog[j].depth <= emitLog[j - 1].depth + 1
    /\ \A j \in 1..Len(emitLog) :
        IF emitLog[j].depth = 1 THEN SameNode(emitLog[j], args)
        ELSE LET i == LineAbove(j, j - 1)
             IN  /\ i > 0
                 /\ emitLog[i].el.HasChildren
                 /\ emitLog[j].itemPath = emitLog[i].el.ItemPath
                 /\ emitLog[j].itemName = emitLog[i].el.ItemName
                 /\ \A k \in (i + 1)..(j - 1) : emitLog[k].depth >= emitLog[j].depth
    /\ \A i, j \in 1..Len(emitLog) :
        (i < j /\ SameNode(emitLog[i], emitLog[j]))
            => ~StrLess(browseElementName(emitLog[j].el), browseElementName(emitLog[i].el))
    /\ \A i \in 1..Len(stack) :
        (stack[i].phase = "loop" /\ stack[i].returned = <<LeafB, LeafA, LeafC>>)
            => stack[i].elements = <<LeafA, LeafB, LeafC>>
    /\ (/\ pc = "done"
        /\ result = NilResult
        /\ args.maxDepth = 1
        /\ Len(emitLog) = 3
        /\ { emitLog[k].el : k \in 1..Len(emitLog) } = {LeafA, LeafB, LeafC})
            => out = << <<60, 114, 111, 111, 116, 62, 10>>,
                        <<32, 32, 97, 10>>, <<32, 32, 98, 10>>, <<32, 32, 99, 10>> >>

\* C23's case: the root's listing returned the leaf "c" and then the branch
\* "b", whose listing returned the leaf "a": the output is "<root>", "  b/",
\* "    a", "  c".
SubtreeWrittenBeforeNextSibling ==
    /\ pc = "done"
    /\ result = NilResult
    /\ out = << <<60, 114, 111, 111, 116, 62, 10>>,
                <<32, 32, 98, 47, 10>>, <<32, 32, 32, 32, 97, 10>>, <<32, 32, 99, 10>> >>

\* The example of C23: the children "b", "a", "c" of an unnamed root.
ThreeLeavesWrittenInOrder ==
    /\ pc = "done"
    /\ result = NilResult
    /\ args.maxDepth = 1
    /\ out = << <<60, 114, 111, 111, 116, 62, 10>>,
                <<32, 32, 97, 10>>, <<32, 32, 98, 10>>, <<32, 32, 99, 10>> >>

\* How an entry of an error list is to be rendered: <<>> if it is skipped.
RenderedEntry(err) ==
    IF ~err.isNil /\ err.hasID /\ err.ID # "" THEN <<err.ID \o ": " \o err.Text>>
    ELSE IF ~err.isNil /\ err.Text # "" THEN <<err.Text>>
    ELSE <<>>

\* The entries of errs that are rendered, in list order, joined by "; ".
RECURSIVE RenderedList(_)
RenderedList(errs) ==
    IF errs = <<>> THEN ""
    ELSE LET head == RenderedEntry(Head(errs))
             tail == RenderedList(Tail(errs))
         IN  IF head = <<>> THEN tail
             ELSE IF tail = "" THEN head[1]
             ELSE head[1] \o "; " \o tail

\* C24: a response with a non-empty error list ends the call with one error,
\* "browse: " and the entries' renderings in list order joined by "; ": an
\* entry with a non-empty id as "id: text", an entry with a text and no id
\* (or an empty one) as its text, other entries skipped, and "unknown error"
\* if no entry is rendered.
ServerErrorsJoined ==
    (failure.failed /\ failure.cause.kind = "opc") =>
        /\ failure.cause.errs # <<>>
        /\ pc = "done"
        /\ result.kind = "browse: %s"
        /\ result.opc = (IF RenderedList(failure.cause.errs) = "" THEN "unknown error"
                         ELSE RenderedList(failure.cause.errs))
        /\ (\A i \in 1..Len(failure.cause.errs) : RenderedEntry(failure.cause.errs[i]) = <<>>)
                <=> result.opc = "unknown error"

\* C24's case: an entry with a text and no id, then an entry with an id.
TextThenIdAndTextReported ==
    /\ failure.failed
    /\ failure.cause.kind = "opc"
    /\ failure.cause.errs = <<OPCError(FALSE, "", "bad item"), OPCError(TRUE, "E_FAIL", "failed")>>
    /\ result.opc = "bad item; E_FAIL: failed"

\* The positions in s of the records with a message of msgs.
PositionsOf(s, msgs) == { k \in 1..Len(s) : s[k].msg \in msgs }

\* C25: the records with an exchange's id are, in this order: one "http
\* request" record, logged before base is called; the phase records; one of
\* "http response" and "http response error", logged once base has
\* returned; and "http response body" records, after "http response", one
\* for each Close of the body.
ExchangeEventsInOrder ==
    \A p \in Begun :
        LET c == calls[p]
            evs == EventsOf(c.id)
            requests == PositionsOf(evs, {"http request"})
            outcomes == PositionsOf(evs, {"http response", "http response error"})
            phases == PositionsOf(evs, Phases)
            bodies == PositionsOf(evs, {"http response body"})
        IN  /\ c.pc = "capture" => evs = <<>>
            /\ c.pc \in {"base", "done"} => requests = {1}
            /\ c.pc = "base" => outcomes = {}
            /\ c.pc = "done" => Cardinality(outcomes) = 1
            /\ \A k \in phases : \A r \in requests : r < k
            /\ \A k \in phases : \A o \in outcomes : k < o
            /\ \A k \in bodies : \E o \in outcomes : o < k /\ evs[o].msg = "http response"
            /\ Cardinality(bodies) = c.lb.closes

\* C26: every phase record carries the id of its exchange and the time
\* elapsed since the exchange's start.
PhaseEventsCarryIdAndElapsed ==
    \A k \in 1..Len(events) :
        events[k].msg \in Phases =>
            /\ "id" \in DOMAIN events[k]
            /\ \E p \in Begun :
                /\ events[k].id = calls[p].id
                /\ "elapsed" \in DOMAIN events[k]
                /\ events[k].elapsed = events[k].at - calls[p].start

\* C27: Close returns the error, or nil, that the underlying body's Close
\* returned; every Close, failed or not, logs one "http response body"
\* record, whose bytes_read is the sum of the byte counts the Reads on the
\* wrapper have returned and whose body_preview is the capture buffer, which
\* is no longer than bytes_read.
CloseReturnsUnderlyingError ==
    /\ [](\A p \in Wrapped :
            /\ calls[p].lb.closeRet = calls[p].lb.underClose
            /\ CountOf(calls[p].id, "http response body") = calls[p].lb.closes)
    /\ [][\A p \in Callers :
            calls'[p].lb.closes = calls[p].lb.closes + 1 =>
                /\ Len(events') = Len(events) + 1
                /\ SubSeq(events', 1, Len(events)) = events
                /\ LET e == events'[Len(events')]
                   IN  /\ e.msg = "http response body"
                       /\ e.id = calls[p].id
                       /\ e.bytes_read = calls[p].lb.pos
                       /\ e.body_preview = calls[p].lb.buf
                       /\ Len(e.body_preview) <= e.bytes_read]_vars

\* C27's case: the underlying Close failed, Close returned its error, and
\* the record it logged reports more bytes read than captured.
FailedCloseLoggedBeyondCapture ==
    \E p \in Wrapped :
        /\ calls[p].lb.closes = 1
        /\ calls[p].lb.underClose = "close failed"
        /\ calls[p].lb.closeRet = "close failed"
        /\ events[Len(events)].msg = "http response body"
        /\ events[Len(events)].bytes_read > Len(events[Len(events)].body_preview)

\* The record with message msg of the exchange id: <<>> if there is none.
EventOf(id, msg) == SelectSeq(events, LAMBDA ev : ev.id = id /\ ev.msg = msg)

\* C28: however the RoundTrip calls of two exchanges on one
\* loggingRoundTripper interleave, the headers and the body preview in an
\* exchange's records are those of its own request and response, no call
\* assigns rt.base, and of the round-tripper's fields only seq changes.
ExchangesShareOnlySeq ==
    /\ rt.baseWrites = {}
    /\ rt.made => rt.base \in {"nil", "transport"}
    /\ \A p \in Begun :
        LET c == calls[p]
            reqs == EventOf(c.id, "http request")
            resps == EventOf(c.id, "http response")
        IN  /\ \A k \in 1..Len(reqs) :
                /\ reqs[k].headers = redactHeaders(c.req.headers)
                /\ reqs[k].body_preview = SubSeq(c.req.body, 1, Len(reqs[k].body_preview))
                /\ reqs[k].body_size = Len(c.req.body)
            /\ \A k \in 1..Len(resps) :
                resps[k].headers = redactHeaders(c.base.resp.headers)

\* The identity of an element.
NodeOf(el) == [itemPath |-> el.ItemPath, itemName |-> el.ItemName]

\* The nodes of the namespace a chain of 1..n parent-to-child steps leads
\* to from the nodes of from.
RECURSIVE ReachableFrom(_, _)
ReachableFrom(from, n) ==
    IF n = 0 THEN {}
    ELSE LET kids == UNION { { NodeOf(Children(node.itemPath, node.itemName)[k]) :
                                 k \in 1..Len(Children(node.itemPath, node.itemName)) } :
                             node \in from }
         IN  kids \cup ReachableFrom(kids, n - 1)

\* C29: a BrowseOpcTree call with maxDepth >= 1 that has returned nil has
\* written, at least once, every node that a chain of at most maxDepth
\* parent-to-child steps leads to from the root.
ReachableNodesEmitted ==
    (pc = "done" /\ result = NilResult /\ args.maxDepth >= 1) =>
        \A node \in ReachableFrom({[itemPath |-> args.itemPath, itemName |-> args.itemName]},
                                  args.maxDepth) :
            \E k \in 1..Len(emitLog) : NodeOf(emitLog[k].el) = node


\* C30: a page that holds a nil entry is handled without a runtime failure:
\* the loop of browseOpcChildren never ends in a panic.
NilEntryHandledWithoutPanic == pc # "panic"

====
